---------------------------- MODULE Spec2Model ----------------------------
(***************************************************************************)
(* A model of the numeric core of options-trade-visualizer-web:            *)
(*   - the options signal engine (src/lib/options/options/signals.ts):     *)
(*     computeBaselineSentiment, computeRiskReversal25,                    *)
(*     computeNetDeltaTilt and computeForwardReturns;                      *)
(*   - the pricing engine (src/lib/calculations/black-scholes.ts):         *)
(*     calculateBlackScholes, buildOptionAnalytics, generateProfitCurve;   *)
(*   - the per-expiry metrics (src/unnamed/part_004, part_001):            *)
(*     computeDealerGexForExpiry, computeSentimentForExpiry,               *)
(*     computeRR25ForExpiry, buildContractGrid, buildSnapshotAggregate.    *)
(*                                                                         *)
(* A specification draws the arguments of a function from bounded sets in  *)
(* its Init and has one action, the call, which stores what the function   *)
(* returns in `result` (and what its local variables held in `locals`).    *)
(* buildOptionAnalytics reads the system clock, which is the variable      *)
(* `now`; its specification has a second action, the passing of time.      *)
(*                                                                         *)
(* JavaScript numbers are modelled as fractions:                           *)
(*     <<n, d>> with d > 0 and gcd(n, d) = 1    a finite number n/d        *)
(*     <<1, 0>>, <<-1, 0>>, <<0, 0>>            Infinity, -Infinity, NaN   *)
(*     << >>                                    null or undefined          *)
(* The signal engine is computed exactly.  The pricing engine and the      *)
(* per-expiry metrics are exact while numerator and denominator fit in 31  *)
(* bits and are rounded to 1/10000 beyond; Math.sqrt, Math.exp and         *)
(* Math.log are computed in fixed point.  The sign of zero is not          *)
(* modelled.                                                               *)
(***************************************************************************)
EXTENDS Integers, Sequences, FiniteSets, TLC

VARIABLES
    pc,               \* "idle" before the call, "done" after it
    contracts,        \* OptionContract[]
    indexPrice,       \* number
    openInterest,     \* OptionOpenInterest[] | undefined: << >> is both [] and
                      \* undefined, which !openInterest?.length treats alike
    timeline,         \* OptionPricePoint[]
    anchorTimestamp,  \* number (an integer number of milliseconds)
    options,          \* the options argument (horizons for computeForwardReturns)
    args,             \* the arguments of a pricing-engine call
    now,              \* the system clock (new Date()), in milliseconds
    result,           \* the value returned
    locals,           \* the local variables of the call, as it returned
    env,              \* process.env
    requests,         \* the HTTP requests sent by fetch, in order
    store,            \* the Firestore database (db)
    openInterestCache \* the module's Map of cached open-interest fetches

\* What lies outside the pure functions: the environment, the network, the
\* database and the cache.
services == <<env, requests, store, openInterestCache>>

vars == <<pc, contracts, indexPrice, openInterest, timeline, anchorTimestamp,
          options, args, now, result, locals, env, requests, store,
          openInterestCache>>

---------------------------------------------------------------------------
(* Numbers *)

Null == << >>
NaN == <<0, 0>>
PosInf == <<1, 0>>
NegInf == <<-1, 0>>

\* The pure functions use no environment variable, network, database or
\* cache: their specifications leave the four unset.
NoServices ==
    /\ env = Null
    /\ requests = << >>
    /\ store = Null
    /\ openInterestCache = << >>

IAbs(n) == IF n < 0 THEN -n ELSE n

RECURSIVE GCD(_, _)
GCD(a, b) == IF b = 0 THEN a ELSE GCD(b, a % b)

\* The finite number n/d, d # 0, in lowest terms with a positive denominator.
Rat(n, d) ==
    LET g == GCD(IAbs(n), IAbs(d))
        s == IF d < 0 THEN -1 ELSE 1
    IN  <<(s * n) \div g, (s * d) \div g>>

Num(n) == <<n, 1>>

isFiniteNumber(v) == Len(v) = 2 /\ v[2] # 0

Add(a, b) == Rat(a[1] * b[2] + b[1] * a[2], a[2] * b[2])
Sub(a, b) == Rat(a[1] * b[2] - b[1] * a[2], a[2] * b[2])
Mul(a, b) == Rat(a[1] * b[1], a[2] * b[2])
Neg(a) == <<-a[1], a[2]>>
Abs(a) == <<IAbs(a[1]), a[2]>>
Lt(a, b) == a[1] * b[2] < b[1] * a[2]
Le(a, b) == a[1] * b[2] <= b[1] * a[2]
IsZero(a) == a[1] = 0

\* a / b for finite a and b: x/0 is Infinity, -Infinity or (0/0) NaN.
Div(a, b) ==
    IF b[1] = 0
    THEN (IF a[1] = 0 THEN NaN ELSE IF a[1] > 0 THEN PosInf ELSE NegInf)
    ELSE Rat(a[1] * b[2], a[2] * b[1])

Max(a, b) == IF Lt(a, b) THEN b ELSE a
Min(a, b) == IF Lt(b, a) THEN b ELSE a

\* The integer q-th root of a non-negative integer that is a perfect q-th power.
IRoot(n, q) == CHOOSE r \in 0..n : r ^ q = n

\* x ** e for a non-negative integer x and a positive fraction e = p/q, where
\* x is a perfect q-th power (the inputs are chosen so that it is).
Pow(x, e) == Num(IRoot(x[1], e[2]) ^ e[1])

\* Math.max(-1, Math.min(1, value))
Clamp(value) == Max(Num(-1), Min(Num(1), value))

\* All sequences over S of length at most n.
SeqUpTo(S, n) == UNION {[1..k -> S] : k \in 0..n}

---------------------------------------------------------------------------
(* Option contracts *)

Contract(symbol, side, strike, mark, markIV, bidIV, askIV, delta) ==
    [symbol |-> symbol, side |-> side, strikePrice |-> strike,
     markPrice |-> mark, markIV |-> markIV, bidIV |-> bidIV, askIV |-> askIV,
     delta |-> delta]

---------------------------------------------------------------------------
(* computeBaselineSentiment *)

DEFAULT_BASELINE_SENTIMENT_OPTIONS ==
    [strikeWindowPct |-> Rat(2, 10), weightExponent |-> Rat(125, 100)]

\* { ...DEFAULT_BASELINE_SENTIMENT_OPTIONS, ...options }: a field the caller
\* leaves out (Null) takes its default.
BaselineOptions(opts) ==
    [strikeWindowPct |-> IF opts.strikeWindowPct = Null
                         THEN DEFAULT_BASELINE_SENTIMENT_OPTIONS.strikeWindowPct
                         ELSE opts.strikeWindowPct,
     weightExponent |-> IF opts.weightExponent = Null
                        THEN DEFAULT_BASELINE_SENTIMENT_OPTIONS.weightExponent
                        ELSE opts.weightExponent]

\* The filter's predicate: a known mark price, and a strike within
\* strikeWindowPct of the index price, relative to the index price.
BaselineKeeps(contract, index, strikeWindowPct) ==
    /\ isFiniteNumber(contract.markPrice)
    /\ Le(Div(Abs(Sub(contract.strikePrice, index)), index), strikeWindowPct)

BaselineFilter(cs, index, strikeWindowPct) ==
    SelectSeq(cs, LAMBDA c : BaselineKeeps(c, index, strikeWindowPct))

\* weight = 1 / (1 + distance ** weightExponent), distance = |strike - index|
BaselineWeight(contract, index, weightExponent) ==
    Div(Num(1),
        Add(Num(1), Pow(Abs(Sub(contract.strikePrice, index)), weightExponent)))

\* BaselineAccumulate with the weight left out of the put branch.
BaselineAccumulate_PutUnweighted(acc, contract, index, weightExponent) ==
    IF contract.side = "CALL"
    THEN [acc EXCEPT !.callScore =
              Add(@, Mul(BaselineWeight(contract, index, weightExponent),
                         contract.markPrice))]
    ELSE [acc EXCEPT !.putScore = Add(@, contract.markPrice)]

\* One step of the forEach: the contract's weighted premium goes to callScore
\* when its side is CALL and to putScore otherwise.
BaselineAccumulate(acc, contract, index, weightExponent) ==
    LET w == Mul(BaselineWeight(contract, index, weightExponent),
                 contract.markPrice)
    IN  IF contract.side = "CALL"
        THEN [acc EXCEPT !.callScore = Add(@, w)]
        ELSE [acc EXCEPT !.putScore = Add(@, w)]

RECURSIVE BaselineScores(_, _, _, _)
BaselineScores(filtered, n, index, weightExponent) ==
    IF n = 0
    THEN [callScore |-> Num(0), putScore |-> Num(0)]
    ELSE BaselineAccumulate(BaselineScores(filtered, n - 1, index, weightExponent),
                            filtered[n], index, weightExponent)

\* BaselineValue without the clamp to [-1, 1].
BaselineValue_NoClamp(callScore, putScore) ==
    LET total == Add(callScore, putScore)
    IN  IF IsZero(total)
        THEN Null
        ELSE Div(Sub(callScore, putScore), total)

\* The value returned once the scores are known.
BaselineValue(callScore, putScore) ==
    LET total == Add(callScore, putScore)
    IN  IF IsZero(total)
        THEN Null
        ELSE Clamp(Div(Sub(callScore, putScore), total))

computeBaselineSentiment(cs, index, opts) ==
    LET o == BaselineOptions(opts)
        filtered == BaselineFilter(cs, index, o.strikeWindowPct)
        s == BaselineScores(filtered, Len(filtered), index, o.weightExponent)
    IN  IF Len(cs) = 0 \/ ~isFiniteNumber(index) \/ Le(index, Num(0))
        THEN [value |-> Null, strikesConsidered |-> 0]
        ELSE IF Len(filtered) = 0
        THEN [value |-> Null, strikesConsidered |-> 0]
        ELSE [value |-> BaselineValue(s.callScore, s.putScore),
              strikesConsidered |-> Len(filtered)]

---------------------------------------------------------------------------
(* The specification of computeBaselineSentiment's calls *)

MaxBaselineContracts == 2

BaselineStrikes == {Num(84), Num(100), Num(181)}
BaselineMarks == {Null, Num(1), Num(-1)}
BaselineIndexPrices == {Num(100), Num(0), NaN}
BaselineOptionSets ==
    {[strikeWindowPct |-> Null, weightExponent |-> Null],
     [strikeWindowPct |-> Rat(16, 100), weightExponent |-> Num(2)],
     [strikeWindowPct |-> Rat(1, 100), weightExponent |-> Null]}

BaselineContracts ==
    {Contract("S", side, strike, mark, Null, Null, Null, Null) :
        side \in {"CALL", "PUT"}, strike \in BaselineStrikes,
        mark \in BaselineMarks}

InitBaseline ==
    /\ pc = "idle"
    /\ NoServices
    /\ contracts \in SeqUpTo(BaselineContracts, MaxBaselineContracts)
    /\ indexPrice \in BaselineIndexPrices
    /\ options \in BaselineOptionSets
    /\ openInterest = Null
    /\ timeline = << >>
    /\ anchorTimestamp = 0
    /\ args = Null
    /\ now = 0
    /\ result = Null
    /\ locals = Null

CallBaselineSentiment ==
    /\ pc = "idle"
    /\ pc' = "done"
    /\ result' = computeBaselineSentiment(contracts, indexPrice, options)
    /\ locals' = Null
    /\ UNCHANGED <<contracts, indexPrice, openInterest, timeline,
                   anchorTimestamp, options, args, now, services>>

NextBaseline == CallBaselineSentiment

SpecBaseline == InitBaseline /\ [][NextBaseline]_vars

\* A contract list with the side of every contract exchanged.
ExchangeSides(cs) ==
    [i \in 1..Len(cs) |->
        [cs[i] EXCEPT !.side = IF @ = "CALL" THEN "PUT" ELSE "CALL"]]

\* Contract i has a known mark price and lies within strikeWindowPct relative
\* distance of the index price.
BaselineKeptAt(i) ==
    /\ isFiniteNumber(indexPrice)
    /\ isFiniteNumber(contracts[i].markPrice)
    /\ LET rel == Div(Abs(Sub(contracts[i].strikePrice, indexPrice)), indexPrice)
       IN  /\ isFiniteNumber(rel)
           /\ Le(rel, BaselineOptions(options).strikeWindowPct)

BaselineKeptSet == {i \in 1..Len(contracts) : BaselineKeptAt(i)}

\* The weighted premium of contract i, written out: mark / (1 + distance^e).
WeightedMark ==
  [i \in BaselineKeptSet |->
    LET d == Abs(Sub(contracts[i].strikePrice, indexPrice))
        p == Pow(d, BaselineOptions(options).weightExponent)
    IN  Rat(contracts[i].markPrice[1] * p[2],
            contracts[i].markPrice[2] * (p[2] + p[1]))]

RECURSIVE SumOver(_, _)
SumOver(I, f) ==
    IF I = {} THEN Num(0)
    ELSE LET i == CHOOSE x \in I : TRUE
         IN  Add(f[i], SumOver(I \ {i}, f))

\* C1: computeBaselineSentiment returns null or a number in [-1, 1]; it
\* returns null when no contract has a known mark price within strikeWindowPct
\* relative distance of the index price, and when the weighted call+put total
\* is zero.
C1_BaselineInRange ==
    pc = "done" =>
        /\ \/ result.value = Null
           \/ /\ isFiniteNumber(result.value)
              /\ Le(Num(-1), result.value)
              /\ Le(result.value, Num(1))
        /\ BaselineKeptSet = {} => result.value = Null
        /\ (BaselineKeptSet # {} /\ IsZero(SumOver(BaselineKeptSet, WeightedMark)))
               => result.value = Null

\* A call of weighted premium 1 against a put of negative weighted premium: the
\* quotient (callScore - putScore) / total exceeds 1 and the result is 1.
C1_Witness ==
    /\ pc = "done"
    /\ result.value = Num(1)
    /\ result.strikesConsidered = 2
    /\ \E i \in BaselineKeptSet :
          contracts[i].side = "PUT" /\ contracts[i].markPrice = Num(-1)

\* C9: exchanging the side of every contract (marks and strikes unchanged)
\* negates the value computeBaselineSentiment returns, null staying null, and
\* leaves strikesConsidered as it is.
C9_ExchangeNegates ==
    pc = "done" =>
        LET other == computeBaselineSentiment(ExchangeSides(contracts),
                                              indexPrice, options)
        IN  /\ other.strikesConsidered = result.strikesConsidered
            /\ other.value = IF result.value = Null THEN Null
                             ELSE Neg(result.value)

\* A call and a put are both counted and the score is neither 0 nor +-1.
C9_Witness ==
    /\ pc = "done"
    /\ result.strikesConsidered = 2
    /\ result.value # Null
    /\ result.value \notin {Num(0), Num(1), Num(-1)}
    /\ \E i, j \in BaselineKeptSet :
          contracts[i].side = "CALL" /\ contracts[j].side = "PUT"

---------------------------------------------------------------------------
(* computeRiskReversal25 *)

DEFAULT_RISK_REVERSAL_OPTIONS == [targetDelta |-> Rat(25, 100)]

RiskReversalOptions(opts) ==
    [targetDelta |-> IF opts.targetDelta = Null
                     THEN DEFAULT_RISK_REVERSAL_OPTIONS.targetDelta
                     ELSE opts.targetDelta]

\* normalizeIv with the bid preferred to the mean of bid and ask.
normalizeIv_BidFirst(contract) ==
    IF isFiniteNumber(contract.markIV) THEN contract.markIV
    ELSE IF isFiniteNumber(contract.bidIV) THEN contract.bidIV
    ELSE IF isFiniteNumber(contract.bidIV) /\ isFiniteNumber(contract.askIV)
    THEN Div(Add(contract.bidIV, contract.askIV), Num(2))
    ELSE IF isFiniteNumber(contract.askIV) THEN contract.askIV
    ELSE Null

normalizeIv(contract) ==
    IF isFiniteNumber(contract.markIV) THEN contract.markIV
    ELSE IF isFiniteNumber(contract.bidIV) /\ isFiniteNumber(contract.askIV)
    THEN Div(Add(contract.bidIV, contract.askIV), Num(2))
    ELSE IF isFiniteNumber(contract.bidIV) THEN contract.bidIV
    ELSE IF isFiniteNumber(contract.askIV) THEN contract.askIV
    ELSE Null

\* !value for a number | null | undefined: true of null, undefined, NaN and 0.
Falsy(value) == value = Null \/ value = NaN \/ value[1] = 0

\* The contracts of one side whose delta is a finite number.
SideWithDelta(cs, side) ==
    SelectSeq(cs, LAMBDA c : c.side = side /\ isFiniteNumber(c.delta))

\* The reduce callback.  `closest` is << >> (null) or <<contract>>; `target` is
\* targetDelta for the calls and -targetDelta for the puts.
ClosestStep(closest, contract, target) ==
    IF Falsy(contract.delta) THEN closest
    ELSE IF closest = << >> THEN <<contract>>
    ELSE IF Lt(Abs(Sub(contract.delta, target)),
               Abs(Sub(closest[1].delta, target)))
    THEN <<contract>>
    ELSE closest

RECURSIVE ClosestReduce(_, _, _)
ClosestReduce(candidates, n, target) ==
    IF n = 0 THEN << >>
    ELSE ClosestStep(ClosestReduce(candidates, n - 1, target),
                     candidates[n], target)

ClosestCall(cs, targetDelta) ==
    LET candidates == SideWithDelta(cs, "CALL")
    IN  ClosestReduce(candidates, Len(candidates), targetDelta)

ClosestPut(cs, targetDelta) ==
    LET candidates == SideWithDelta(cs, "PUT")
    IN  ClosestReduce(candidates, Len(candidates), Neg(targetDelta))

\* The value returned, the two legs being selected.
RiskReversalOf(call, put) ==
    IF call = << >> \/ put = << >>
    THEN [rr25 |-> Null, callStrike |-> Null, putStrike |-> Null]
    ELSE LET callIv == normalizeIv(call[1])
             putIv == normalizeIv(put[1])
         IN  IF ~isFiniteNumber(callIv) \/ ~isFiniteNumber(putIv)
             THEN [rr25 |-> Null, callStrike |-> Null, putStrike |-> Null]
             ELSE [rr25 |-> Sub(callIv, putIv),
                   callStrike |-> call[1].strikePrice,
                   putStrike |-> put[1].strikePrice]

\* The local variables call and put when the function returns.
RiskReversalLegs(cs, opts) ==
    LET targetDelta == RiskReversalOptions(opts).targetDelta
    IN  IF Len(cs) = 0
        THEN [call |-> << >>, put |-> << >>]
        ELSE [call |-> ClosestCall(cs, targetDelta),
              put |-> ClosestPut(cs, targetDelta)]

computeRiskReversal25(cs, opts) ==
    LET legs == RiskReversalLegs(cs, opts)
    IN  IF Len(cs) = 0
        THEN [rr25 |-> Null, callStrike |-> Null, putStrike |-> Null]
        ELSE RiskReversalOf(legs.call, legs.put)

---------------------------------------------------------------------------
(* The specification of computeRiskReversal25's calls *)

MaxRiskReversalContracts == 2

\* (markIV, bidIV, askIV)
RiskReversalIvs ==
    {<<Null, Null, Null>>,
     <<Rat(35, 100), Rat(20, 100), Rat(40, 100)>>,
     <<Null, Rat(20, 100), Rat(40, 100)>>,
     <<Null, Rat(20, 100), Null>>,
     <<Null, Null, Rat(40, 100)>>}

\* The absolute deltas; a call carries the delta and a put its negation.
RiskReversalDeltas == {Null, Num(0), Rat(20, 100), Rat(30, 100), Rat(60, 100)}

RiskReversalContracts ==
    {Contract("S", side, Num(0), Null, iv[1], iv[2], iv[3],
              IF side = "CALL" \/ d = Null THEN d ELSE Neg(d)) :
        side \in {"CALL", "PUT"}, iv \in RiskReversalIvs,
        d \in RiskReversalDeltas}

RiskReversalOptionSets ==
    {[targetDelta |-> Null], [targetDelta |-> Rat(40, 100)]}

\* The i-th contract of the list gets the strike 100 + 10 i: the strike says
\* which contract of the list a leg is.
WithStrikes(cs) ==
    [i \in 1..Len(cs) |-> [cs[i] EXCEPT !.strikePrice = Num(100 + 10 * i)]]

InitRiskReversal ==
    /\ pc = "idle"
    /\ NoServices
    /\ \E cs \in SeqUpTo(RiskReversalContracts, MaxRiskReversalContracts) :
          contracts = WithStrikes(cs)
    /\ options \in RiskReversalOptionSets
    /\ indexPrice = Num(100)
    /\ openInterest = Null
    /\ timeline = << >>
    /\ anchorTimestamp = 0
    /\ args = Null
    /\ now = 0
    /\ result = Null
    /\ locals = Null

CallRiskReversal25 ==
    /\ pc = "idle"
    /\ pc' = "done"
    /\ result' = computeRiskReversal25(contracts, options)
    /\ locals' = RiskReversalLegs(contracts, options)
    /\ UNCHANGED <<contracts, indexPrice, openInterest, timeline,
                   anchorTimestamp, options, args, now, services>>

NextRiskReversal == CallRiskReversal25

SpecRiskReversal == InitRiskReversal /\ [][NextRiskReversal]_vars

\* The indices of the contracts of a side that have a known delta.
KnownDeltaOf(side) ==
    {i \in 1..Len(contracts) :
        contracts[i].side = side /\ isFiniteNumber(contracts[i].delta)}

\* |delta - target| of contract i.
DeltaDistance(i, target) == Abs(Sub(contracts[i].delta, target))

\* The first contract of I that is as close to target as any contract of I,
\* as << >> or <<contract>>.
FirstNearest(I, target) ==
    IF I = {} THEN << >>
    ELSE LET best == {i \in I : \A j \in I :
                         Le(DeltaDistance(i, target), DeltaDistance(j, target))}
             first == CHOOSE i \in best : \A j \in best : i <= j
         IN  <<contracts[first]>>

\* C3, for the default targetDelta: the call leg is the CALL with a known
\* delta that minimises |delta - targetDelta| and the put leg the PUT with a
\* known delta that minimises |delta + targetDelta|, the first of the input
\* array among equally close ones.
C3_NearestDeltaLegs ==
    (pc = "done" /\ options.targetDelta = Null) =>
        LET t == RiskReversalOptions(options).targetDelta
        IN  /\ locals.call = FirstNearest(KnownDeltaOf("CALL"), t)
            /\ locals.put = FirstNearest(KnownDeltaOf("PUT"), Neg(t))

\* The implied volatility of a leg: markIV, else the mean of bidIV and askIV,
\* else bidIV, else askIV, else null.
LegIv(c) ==
    CASE c.markIV # Null -> c.markIV
      [] c.markIV = Null /\ c.bidIV # Null /\ c.askIV # Null ->
            Rat(c.bidIV[1] * c.askIV[2] + c.askIV[1] * c.bidIV[2],
                2 * c.bidIV[2] * c.askIV[2])
      [] c.markIV = Null /\ c.bidIV # Null /\ c.askIV = Null -> c.bidIV
      [] c.markIV = Null /\ c.bidIV = Null /\ c.askIV # Null -> c.askIV
      [] OTHER -> Null

\* C4: rr25 = callIV - putIV when both legs are selected and the implied
\* volatility of each resolves (markIV, else mean(bidIV, askIV), else bidIV,
\* else askIV); rr25 = null when a leg is missing or its volatility does not
\* resolve.
C4_RiskReversalValue ==
    pc = "done" =>
        IF /\ locals.call # << >>
           /\ locals.put # << >>
           /\ LegIv(locals.call[1]) # Null
           /\ LegIv(locals.put[1]) # Null
        THEN result.rr25 = Sub(LegIv(locals.call[1]), LegIv(locals.put[1]))
        ELSE result.rr25 = Null

\* Both legs are selected; the call resolves to the mean of its bid and ask
\* volatility and the put to its mark volatility.
C4_Witness ==
    /\ pc = "done"
    /\ locals.call # << >>
    /\ locals.put # << >>
    /\ locals.call[1].markIV = Null
    /\ locals.call[1].bidIV # Null
    /\ locals.call[1].askIV # Null
    /\ locals.put[1].markIV # Null
    /\ result.rr25 = Rat(-5, 100)

---------------------------------------------------------------------------
(* computeNetDeltaTilt *)

DEFAULT_NET_DELTA_OPTIONS == [minDelta |-> Rat(5, 100)]

NetDeltaOptions(opts) ==
    [minDelta |-> IF opts.minDelta = Null
                  THEN DEFAULT_NET_DELTA_OPTIONS.minDelta
                  ELSE opts.minDelta]

\* new Map(openInterest.map((entry) => [entry.symbol, entry.openInterest])):
\* the map after the first n entries; a later entry replaces an earlier one of
\* the same symbol.
RECURSIVE InterestMap(_, _)
InterestMap(entries, n) ==
    IF n = 0 THEN << >>
    ELSE LET m == InterestMap(entries, n - 1)
             e == entries[n]
         IN  [k \in DOMAIN m \cup {e.symbol} |->
                 IF k = e.symbol THEN e.openInterest ELSE m[k]]

\* interestMap.get(symbol): undefined (Null) for a symbol that is no key.
InterestMapGet(m, symbol) == IF symbol \in DOMAIN m THEN m[symbol] ELSE Null

\* NetDeltaStep with the test against minDelta left out.
NetDeltaStep_NoMinDelta(acc, contract, interestMap, minDelta) ==
    LET oi == InterestMapGet(interestMap, contract.symbol)
    IN  IF ~isFiniteNumber(oi) \/ ~isFiniteNumber(contract.delta)
        THEN acc
        ELSE [numerator |-> Add(acc.numerator, Mul(contract.delta, oi)),
              denominator |-> Add(acc.denominator, Abs(oi))]

\* NetDeltaStep with the open interest, not its absolute value, added to the
\* denominator.
NetDeltaStep_NoAbs(acc, contract, interestMap, minDelta) ==
    LET oi == InterestMapGet(interestMap, contract.symbol)
    IN  IF ~isFiniteNumber(oi) \/ ~isFiniteNumber(contract.delta)
        THEN acc
        ELSE IF Lt(Abs(contract.delta), minDelta)
        THEN acc
        ELSE [numerator |-> Add(acc.numerator, Mul(contract.delta, oi)),
              denominator |-> Add(acc.denominator, oi)]

\* The forEach callback.
NetDeltaStep(acc, contract, interestMap, minDelta) ==
    LET oi == InterestMapGet(interestMap, contract.symbol)
    IN  IF ~isFiniteNumber(oi) \/ ~isFiniteNumber(contract.delta)
        THEN acc
        ELSE IF Lt(Abs(contract.delta), minDelta)
        THEN acc
        ELSE [numerator |-> Add(acc.numerator, Mul(contract.delta, oi)),
              denominator |-> Add(acc.denominator, Abs(oi))]

RECURSIVE NetDeltaSums(_, _, _, _)
NetDeltaSums(cs, n, interestMap, minDelta) ==
    IF n = 0
    THEN [numerator |-> Num(0), denominator |-> Num(0)]
    ELSE NetDeltaStep(NetDeltaSums(cs, n - 1, interestMap, minDelta),
                      cs[n], interestMap, minDelta)

computeNetDeltaTilt(cs, oiList, opts) ==
    IF Len(cs) = 0 \/ oiList = Null \/ Len(oiList) = 0
    THEN [value |-> Null, notionalsConsidered |-> Num(0)]
    ELSE LET minDelta == NetDeltaOptions(opts).minDelta
             interestMap == InterestMap(oiList, Len(oiList))
             sums == NetDeltaSums(cs, Len(cs), interestMap, minDelta)
         IN  IF IsZero(sums.denominator)
             THEN [value |-> Null, notionalsConsidered |-> Num(0)]
             ELSE [value |-> Clamp(Div(sums.numerator, sums.denominator)),
                   notionalsConsidered |-> sums.denominator]

---------------------------------------------------------------------------
(* The specification of computeNetDeltaTilt's calls *)

MaxNetDeltaContracts == 2
MaxOpenInterestEntries == 2

NetDeltaSymbols == {"A", "B"}
NetDeltaDeltas == {Null, Rat(4, 100), Rat(-50, 100), Rat(150, 100)}
OpenInterestValues == {Num(0), Num(2), Num(-3)}

NetDeltaContracts ==
    {Contract(symbol, IF d # Null /\ d[1] < 0 THEN "PUT" ELSE "CALL", Num(100),
              Null, Null, Null, Null, d) :
        symbol \in NetDeltaSymbols, d \in NetDeltaDeltas}

OpenInterestEntries ==
    {[symbol |-> symbol, openInterest |-> oi] :
        symbol \in NetDeltaSymbols, oi \in OpenInterestValues}

NetDeltaOptionSets == {[minDelta |-> Null], [minDelta |-> Rat(50, 100)]}

InitNetDelta ==
    /\ pc = "idle"
    /\ NoServices
    /\ contracts \in SeqUpTo(NetDeltaContracts, MaxNetDeltaContracts)
    /\ openInterest \in SeqUpTo(OpenInterestEntries, MaxOpenInterestEntries)
    /\ options \in NetDeltaOptionSets
    /\ indexPrice = Num(100)
    /\ timeline = << >>
    /\ anchorTimestamp = 0
    /\ args = Null
    /\ now = 0
    /\ result = Null
    /\ locals = Null

CallNetDeltaTilt ==
    /\ pc = "idle"
    /\ pc' = "done"
    /\ result' = computeNetDeltaTilt(contracts, openInterest, options)
    /\ locals' = Null
    /\ UNCHANGED <<contracts, indexPrice, openInterest, timeline,
                   anchorTimestamp, options, args, now, services>>

NextNetDelta == CallNetDeltaTilt

SpecNetDelta == InitNetDelta /\ [][NextNetDelta]_vars

\* The open interest the list gives for a symbol: that of the last entry of
\* the symbol, Null when there is none.
OpenInterestOf(symbol) ==
    LET J == {j \in 1..Len(openInterest) : openInterest[j].symbol = symbol}
    IN  IF J = {} THEN Null
        ELSE openInterest[CHOOSE j \in J : \A k \in J : k <= j].openInterest

\* The contracts that count: a known open interest and a known delta with
\* |delta| >= minDelta.
NetDeltaCounted ==
    {i \in 1..Len(contracts) :
        /\ isFiniteNumber(OpenInterestOf(contracts[i].symbol))
        /\ isFiniteNumber(contracts[i].delta)
        /\ Le(NetDeltaOptions(options).minDelta, Abs(contracts[i].delta))}

DeltaTimesInterest ==
    [i \in NetDeltaCounted |->
        Mul(contracts[i].delta, OpenInterestOf(contracts[i].symbol))]

AbsInterest ==
    [i \in NetDeltaCounted |-> Abs(OpenInterestOf(contracts[i].symbol))]

\* C2: value = sum(delta * OI) / sum(|OI|) clamped to [-1, 1], over exactly the
\* contracts with a known open interest and a known delta with
\* |delta| >= minDelta; null when the open-interest list is missing or empty or
\* the denominator is zero.
C2_NetDeltaTiltValue ==
    pc = "done" =>
        IF openInterest = Null \/ Len(openInterest) = 0
        THEN result.value = Null
        ELSE LET numerator == SumOver(NetDeltaCounted, DeltaTimesInterest)
                 denominator == SumOver(NetDeltaCounted, AbsInterest)
                 q == Div(numerator, denominator)
             IN  IF IsZero(denominator)
                 THEN result.value = Null
                 ELSE result.value = (IF Lt(q, Num(-1)) THEN Num(-1)
                                      ELSE IF Lt(Num(1), q) THEN Num(1) ELSE q)

\* Two contracts count, one with a negative open interest, and the value lies
\* strictly inside (-1, 1) and is not 0.
C2_Witness ==
    /\ pc = "done"
    /\ Cardinality(NetDeltaCounted) = 2
    /\ \E i \in NetDeltaCounted :
          OpenInterestOf(contracts[i].symbol) = Num(-3)
    /\ result.value # Null
    /\ result.value \notin {Num(0), Num(1), Num(-1)}

\* C10: when every contract has |delta| < minDelta or no known delta, the value
\* is null whatever the open-interest list holds.
C10_BelowMinDeltaNull ==
    pc = "done" =>
        ((\A i \in 1..Len(contracts) :
             \/ ~isFiniteNumber(contracts[i].delta)
             \/ Lt(Abs(contracts[i].delta), NetDeltaOptions(options).minDelta))
         => result.value = Null)

\* A contract with a known delta below minDelta whose symbol has a known,
\* non-zero open interest, and the value is null.
C10_Witness ==
    /\ pc = "done"
    /\ result.value = Null
    /\ \E i \in 1..Len(contracts) :
          /\ isFiniteNumber(contracts[i].delta)
          /\ Lt(Abs(contracts[i].delta), NetDeltaOptions(options).minDelta)
          /\ isFiniteNumber(OpenInterestOf(contracts[i].symbol))
          /\ ~IsZero(OpenInterestOf(contracts[i].symbol))
    /\ \A i \in 1..Len(contracts) :
          \/ ~isFiniteNumber(contracts[i].delta)
          \/ Lt(Abs(contracts[i].delta), NetDeltaOptions(options).minDelta)

---------------------------------------------------------------------------
(* computeForwardReturns *)

\* The offsets, in milliseconds.
DEFAULT_FORWARD_HORIZONS ==
    ("15m" :> 15 * 60 * 1000) @@ ("1h" :> 60 * 60 * 1000) @@
    ("4h" :> 4 * 60 * 60 * 1000) @@ ("1d" :> 24 * 60 * 60 * 1000)

Point(timestamp, price) == [timestamp |-> timestamp, price |-> price]

\* One step of the sort: point is inserted behind every point whose timestamp
\* is not greater, so that points of equal timestamp keep their input order
\* (Array.prototype.sort is stable).
InsertByTimestamp(sorted, point) ==
    LET before == SelectSeq(sorted, LAMBDA q : q.timestamp <= point.timestamp)
        after == SelectSeq(sorted, LAMBDA q : q.timestamp > point.timestamp)
    IN  before \o <<point>> \o after

\* SortByTimestamp with the sort left out.
SortByTimestamp_Unsorted(points, n) == SubSeq(points, 1, n)

\* [...timeline].sort((a, b) => a.timestamp - b.timestamp), of the first n points.
RECURSIVE SortByTimestamp(_, _)
SortByTimestamp(points, n) ==
    IF n = 0 THEN << >>
    ELSE InsertByTimestamp(SortByTimestamp(points, n - 1), points[n])

\* FindAtOrAfter with > in the place of >=.
FindAtOrAfter_Strict(sorted, time) ==
    LET hits == SelectSeq(sorted, LAMBDA q : q.timestamp > time)
    IN  IF Len(hits) = 0 THEN << >> ELSE <<hits[1]>>

\* sorted.find((point) => point.timestamp >= time): << >> (undefined) or
\* <<point>>.
FindAtOrAfter(sorted, time) ==
    LET hits == SelectSeq(sorted, LAMBDA q : q.timestamp >= time)
    IN  IF Len(hits) = 0 THEN << >> ELSE <<hits[1]>>

\* The anchor: the first point at or after anchorTimestamp, else the last.
ForwardAnchor(sorted, anchorTs) ==
    LET found == FindAtOrAfter(sorted, anchorTs)
    IN  IF found # << >> THEN found[1] ELSE sorted[Len(sorted)]

\* TargetTime without the anchor's timestamp.
TargetTime_OffsetOnly(anchor, offset) == offset

\* const targetTime = anchor.timestamp + offset
TargetTime(anchor, offset) == anchor.timestamp + offset

\* The point a horizon uses, << >> when there is none.
ForwardFuture(sorted, anchor, offset) ==
    FindAtOrAfter(sorted, TargetTime(anchor, offset))

\* The reduce callback's entry for one horizon.
ForwardReturn(sorted, anchor, offset) ==
    LET future == ForwardFuture(sorted, anchor, offset)
    IN  IF future = << >>
        THEN Null
        ELSE Div(Sub(future[1].price, anchor.price), anchor.price)

computeForwardReturns(points, anchorTs, horizons) ==
    IF Len(points) = 0
    THEN [label \in DOMAIN horizons |-> Null]
    ELSE LET sorted == SortByTimestamp(points, Len(points))
             anchor == ForwardAnchor(sorted, anchorTs)
         IN  [label \in DOMAIN horizons |->
                 ForwardReturn(sorted, anchor, horizons[label])]

\* The local variables when the function returns: the anchor and the point
\* each horizon found, as << >> or <<point>>.
ForwardLocals(points, anchorTs, horizons) ==
    IF Len(points) = 0
    THEN [anchor |-> << >>, future |-> [label \in DOMAIN horizons |-> << >>]]
    ELSE LET sorted == SortByTimestamp(points, Len(points))
             anchor == ForwardAnchor(sorted, anchorTs)
         IN  [anchor |-> <<anchor>>,
              future |-> [label \in DOMAIN horizons |->
                             ForwardFuture(sorted, anchor, horizons[label])]]

---------------------------------------------------------------------------
(* The specification of computeForwardReturns's calls *)

MaxTimelinePoints == 3

ForwardTimestamps == {0, 900000, 4500000}
ForwardPrices == {Num(0), Num(1), Num(2)}
ForwardAnchorTimestamps == {0, 1, 5000000}

\* The default horizons, and a map with a zero and a negative offset.
ForwardHorizonSets ==
    {DEFAULT_FORWARD_HORIZONS,
     ("15m" :> 0) @@ ("1h" :> 900000) @@ ("4h" :> -900000) @@ ("1d" :> 3600000)}

ForwardPoints ==
    {Point(t, p) : t \in ForwardTimestamps, p \in ForwardPrices}

InitForward ==
    /\ pc = "idle"
    /\ NoServices
    /\ timeline \in SeqUpTo(ForwardPoints, MaxTimelinePoints)
    /\ anchorTimestamp \in ForwardAnchorTimestamps
    /\ options \in ForwardHorizonSets
    /\ contracts = << >>
    /\ indexPrice = Num(100)
    /\ openInterest = << >>
    /\ args = Null
    /\ now = 0
    /\ result = Null
    /\ locals = Null

CallForwardReturns ==
    /\ pc = "idle"
    /\ pc' = "done"
    /\ result' = computeForwardReturns(timeline, anchorTimestamp, options)
    /\ locals' = ForwardLocals(timeline, anchorTimestamp, options)
    /\ UNCHANGED <<contracts, indexPrice, openInterest, timeline,
                   anchorTimestamp, options, args, now, services>>

NextForward == CallForwardReturns

SpecForward == InitForward /\ [][NextForward]_vars

TimelinePoints == {timeline[i] : i \in 1..Len(timeline)}

\* No point of the timeline has the price 0: no return is a division by zero.
NonZeroPrices == \A p \in TimelinePoints : p.price # Num(0)

AtOrAfter(time) == {p \in TimelinePoints : p.timestamp >= time}

\* point is a point of the set with the least timestamp of the set.
EarliestOf(point, points) ==
    point \in points /\ \A p \in points : point.timestamp <= p.timestamp

\* The anchor is the earliest point at or after anchorTimestamp, or the latest
\* point when there is none, and each horizon uses the earliest point at or
\* after anchor.timestamp + offset.
AnchorAndFutureChosen ==
    LET anchor == locals.anchor[1]
    IN  /\ locals.anchor # << >>
        /\ IF AtOrAfter(anchorTimestamp) # {}
           THEN EarliestOf(anchor, AtOrAfter(anchorTimestamp))
           ELSE anchor \in TimelinePoints /\
                \A p \in TimelinePoints : p.timestamp <= anchor.timestamp
        /\ \A label \in DOMAIN options :
              LET later == AtOrAfter(anchor.timestamp + options[label])
              IN  IF later = {}
                  THEN locals.future[label] = << >>
                  ELSE /\ locals.future[label] # << >>
                       /\ EarliestOf(locals.future[label][1], later)

\* The timeline with its points in every order.
Reorderings(points) ==
    {[i \in 1..Len(points) |-> points[f[i]]] :
        f \in Permutations(1..Len(points))}

OrderIndependent ==
    \A other \in Reorderings(timeline) :
        computeForwardReturns(other, anchorTimestamp, options) = result

\* C6 as stated, for the default horizons and the timelines of non-zero
\* prices: the anchor is the earliest point at or after anchorTimestamp (the
\* latest point when there is none), each horizon uses the earliest point at
\* or after anchor.timestamp + offset, and the result does not depend on the
\* order of the points in the input array.
C6_SortedChoiceAnyOrder ==
    (/\ pc = "done"
     /\ Len(timeline) > 0
     /\ NonZeroPrices
     /\ options = DEFAULT_FORWARD_HORIZONS) =>
        AnchorAndFutureChosen /\ OrderIndependent

\* C6, amended: the choice of the anchor and of each horizon's point as stated;
\* the result does not depend on the order of the points in the input array
\* when points of equal timestamp have equal prices (as when no two points
\* share a timestamp).
C6_SortedChoiceDistinctOrder ==
    (pc = "done" /\ Len(timeline) > 0) =>
        /\ AnchorAndFutureChosen
        /\ (\A p, q \in TimelinePoints :
               p.timestamp = q.timestamp => p.price = q.price)
           => OrderIndependent

\* Three points of distinct timestamps given in descending order; the anchor
\* is the last point of the input and a horizon finds the first.
C6_Witness ==
    /\ pc = "done"
    /\ Len(timeline) = 3
    /\ timeline[1].timestamp > timeline[2].timestamp
    /\ timeline[2].timestamp > timeline[3].timestamp
    /\ locals.anchor = <<timeline[3]>>
    /\ timeline[3].price = Num(1)
    /\ \E label \in DOMAIN options :
          /\ locals.future[label] = <<timeline[1]>>
          /\ result[label] = Num(1)

\* C7: a horizon whose target time anchor.timestamp + offset is the timestamp
\* of a point gets the non-null return (futurePrice - anchorPrice) / anchorPrice
\* of a point at the target time; a horizon is null only when no point at or
\* after its target time exists.
C7_ExactCoverReturn ==
    (pc = "done" /\ Len(timeline) > 0) =>
        \A label \in DOMAIN options :
            LET anchor == locals.anchor[1]
                target == anchor.timestamp + options[label]
                exact == {p \in TimelinePoints : p.timestamp = target}
            IN  /\ exact # {} =>
                      /\ result[label] # Null
                      /\ \E future \in exact :
                            result[label] =
                                Div(Sub(future.price, anchor.price), anchor.price)
                /\ result[label] = Null => AtOrAfter(target) = {}

\* The 15m target is the timestamp of a later point whose price is twice the
\* anchor's: the return is 1.
C7_Witness ==
    /\ pc = "done"
    /\ locals.anchor # << >>
    /\ locals.anchor[1].price = Num(1)
    /\ options["15m"] > 0
    /\ \E p \in TimelinePoints :
          /\ p.timestamp = locals.anchor[1].timestamp + options["15m"]
          /\ p.price = Num(2)
    /\ result["15m"] = Num(1)

\* C8, for the default horizons: every forward return is null or a finite
\* number, for every timeline, including one whose anchor price is 0.
C8_ForwardReturnsFinite ==
    (pc = "done" /\ options = DEFAULT_FORWARD_HORIZONS) =>
        \A label \in DOMAIN options :
            result[label] = Null \/ isFiniteNumber(result[label])

---------------------------------------------------------------------------
(* generateProfitCurve (src/lib/calculations/black-scholes.ts) *)

CONTRACT_SIZE == 100
DEFAULT_PRICE_STEPS == 60
DEFAULT_RANGE_MULTIPLIER == 2

\* A destructured parameter with a default value: undefined takes the default.
OrDefault(value, default) == IF value = Null THEN default ELSE value

\* ProfitPoint with the intrinsic value not floored at zero.
ProfitPoint_NoFloor(price, strike, premium, optionType, quantity) ==
    LET intrinsic == IF optionType = "call"
                     THEN Sub(price, strike)
                     ELSE Sub(strike, price)
        payoff == Sub(intrinsic, premium)
    IN  [price |-> price, profit |-> Mul(payoff, quantity)]

\* ProfitPoint with the premium added to the intrinsic value.
ProfitPoint_PremiumAdded(price, strike, premium, optionType, quantity) ==
    LET intrinsic == IF optionType = "call"
                     THEN Max(Sub(price, strike), Num(0))
                     ELSE Max(Sub(strike, price), Num(0))
        payoff == Add(intrinsic, premium)
    IN  [price |-> price, profit |-> Mul(payoff, quantity)]

\* The body of the loop: the point pushed for one sampled price.
ProfitPoint(price, strike, premium, optionType, quantity) ==
    LET intrinsic == IF optionType = "call"
                     THEN Max(Sub(price, strike), Num(0))
                     ELSE Max(Sub(strike, price), Num(0))
        payoff == Sub(intrinsic, premium)
    IN  [price |-> price, profit |-> Mul(payoff, quantity)]

\* config is a ProfitCurveConfig; priceSteps is a positive integer.  The loop
\* runs for i = 0 .. priceSteps; the point of iteration i is at index i + 1.
generateProfitCurve(config) ==
    LET priceSteps == OrDefault(config.priceSteps, Num(DEFAULT_PRICE_STEPS))
        rangeMultiplier ==
            OrDefault(config.rangeMultiplier, Num(DEFAULT_RANGE_MULTIPLIER))
        minPrice == Max(Div(config.currentPrice, rangeMultiplier), Num(0))
        maxPrice == Mul(config.currentPrice, rangeMultiplier)
        step == Div(Sub(maxPrice, minPrice), priceSteps)
    IN  [k \in 1..(priceSteps[1] + 1) |->
            ProfitPoint(Add(minPrice, Mul(step, Num(k - 1))), config.strike,
                        config.premium, config.optionType, config.quantity)]

MaxPriceSteps == 3
MaxQuantity == 2

CurvePrices == {Num(0), Num(100), Num(200), Num(-40)}
CurveStrikes == {Num(100), Num(199), Num(130)}
CurvePremiums == {Num(0), Rat(5, 2), Num(-1)}
OptionTypes == {"call", "put"}
Positions == {"long", "short"}
Quantities == 1..MaxQuantity

\* The quantity buildOptionAnalytics passes: contracts * CONTRACT_SIZE, negated
\* for a short position.
EffectiveQuantities ==
    {Num(sign * CONTRACT_SIZE * quantity) :
        sign \in {1, -1}, quantity \in Quantities}

CurvePriceSteps == {Null} \cup {Num(n) : n \in 1..MaxPriceSteps}
CurveRangeMultipliers == {Null, Num(4)}

ProfitCurveConfigs ==
    [currentPrice : CurvePrices, strike : CurveStrikes,
     premium : CurvePremiums, optionType : OptionTypes,
     quantity : EffectiveQuantities, priceSteps : CurvePriceSteps,
     rangeMultiplier : CurveRangeMultipliers]

InitProfitCurve ==
    /\ pc = "idle"
    /\ NoServices
    /\ args \in ProfitCurveConfigs
    /\ contracts = << >>
    /\ indexPrice = Null
    /\ openInterest = << >>
    /\ timeline = << >>
    /\ anchorTimestamp = 0
    /\ options = Null
    /\ now = 0
    /\ result = Null
    /\ locals = Null

CallGenerateProfitCurve ==
    /\ pc = "idle"
    /\ pc' = "done"
    /\ result' = generateProfitCurve(args)
    /\ locals' = Null
    /\ UNCHANGED <<contracts, indexPrice, openInterest, timeline,
                   anchorTimestamp, options, args, now, services>>

NextProfitCurve == CallGenerateProfitCurve

SpecProfitCurve == InitProfitCurve /\ [][NextProfitCurve]_vars

DefaultCurveSettings == args.priceSteps = Null /\ args.rangeMultiplier = Null

\* The intrinsic value per share at a price, by cases.
IntrinsicAt(optionType, price, strike) ==
    IF optionType = "call"
    THEN (IF Lt(strike, price) THEN Sub(price, strike) ELSE Num(0))
    ELSE (IF Lt(price, strike) THEN Sub(strike, price) ELSE Num(0))

\* C11: for currentPrice > 0 and the default settings, generateProfitCurve
\* returns exactly 61 points; their prices increase in equal steps from
\* currentPrice / 2 to currentPrice * 2; and each point's profit is
\* (intrinsic value at its price - premium) * quantity.
C11_ProfitCurveShape ==
    (pc = "done" /\ Lt(Num(0), args.currentPrice) /\ DefaultCurveSettings) =>
        /\ Len(result) = 61
        /\ result[1].price = Div(args.currentPrice, Num(2))
        /\ result[61].price = Mul(args.currentPrice, Num(2))
        /\ \A k \in 1..60 :
              /\ Lt(result[k].price, result[k + 1].price)
              /\ Sub(result[k + 1].price, result[k].price)
                     = Sub(result[2].price, result[1].price)
        /\ \A k \in 1..61 :
              result[k].profit
                  = Mul(Sub(IntrinsicAt(args.optionType, result[k].price,
                                        args.strike),
                            args.premium),
                        args.quantity)

\* A put curve at a positive price whose samples lie on both sides of the
\* strike: the first has intrinsic value, the last has none.
C11_Witness ==
    /\ pc = "done"
    /\ Lt(Num(0), args.currentPrice)
    /\ DefaultCurveSettings
    /\ args.optionType = "put"
    /\ Len(result) = 61
    /\ Lt(result[1].price, args.strike)
    /\ Lt(args.strike, result[61].price)
    /\ result[1].profit # result[61].profit

---------------------------------------------------------------------------
(* Arithmetic with Infinity and NaN.  The operators above take finite       *)
(* numbers; these follow IEEE 754 on all of them (every zero is +0).  A     *)
(* double has a 53-bit significand; here a result is exact when its         *)
(* numerator and denominator fit in 31 bits, and otherwise the operands are *)
(* rounded down to a multiple of 1/10000, then of 1/100, then of 1, until   *)
(* it does; a product of integers that does not fit is an infinity.         *)

MaxInt == 2147483647

Sign(n) == IF n > 0 THEN 1 ELSE IF n < 0 THEN -1 ELSE 0

\* The greatest common divisor, with 1 in place of gcd(0, 0).
Gcd1(a, b) == IF a = 0 /\ b = 0 THEN 1 ELSE GCD(IAbs(a), IAbs(b))

\* n/d in the encoding; d >= 0, and d = 0 gives Infinity, -Infinity or NaN.
Frac(n, d) == IF d = 0 THEN <<Sign(n), 0>> ELSE Rat(n, d)

\* |p * q| <= MaxInt
Fits(p, q) == q = 0 \/ IAbs(p) <= MaxInt \div IAbs(q)

\* x rounded down to a multiple of 1/unit, or to an integer when that multiple
\* does not fit; an infinity or NaN is left as it is.
RoundTo(x, unit) ==
    IF x[2] = 0 THEN x
    ELSE LET limit == MaxInt \div unit
             s == x[2] \div limit + 1
             n == x[1] \div s
             d == x[2] \div s
         IN  IF IAbs(n \div d) >= limit - 1
             THEN <<n \div d, 1>>
             ELSE Rat((n \div d) * unit + ((n % d) * unit) \div d, unit)

RECURSIVE TimesAt(_, _, _)
TimesAt(a, b, unit) ==
    LET g1 == Gcd1(a[1], b[2])
        g2 == Gcd1(b[1], a[2])
    IN  IF Fits(a[1] \div g1, b[1] \div g2) /\ Fits(a[2] \div g2, b[2] \div g1)
        THEN Frac((a[1] \div g1) * (b[1] \div g2),
                  (a[2] \div g2) * (b[2] \div g1))
        ELSE IF unit = 0
        THEN <<Sign(a[1]) * Sign(b[1]), 0>>
        ELSE TimesAt(RoundTo(a, unit), RoundTo(b, unit), unit \div 100)

\* a * b
Times(a, b) == TimesAt(a, b, 10000)

RECURSIVE PlusAt(_, _, _)
PlusAt(a, b, unit) ==
    LET g == Gcd1(a[2], b[2])
    IN  IF /\ Fits(a[1], b[2] \div g)
           /\ Fits(b[1], a[2] \div g)
           /\ Fits(a[2] \div g, b[2])
           /\ IAbs(a[1] * (b[2] \div g)) <= MaxInt - IAbs(b[1] * (a[2] \div g))
        THEN Frac(a[1] * (b[2] \div g) + b[1] * (a[2] \div g),
                  (a[2] \div g) * b[2])
        ELSE IF unit = 0
        THEN <<Sign(a[1]), 0>>
        ELSE PlusAt(RoundTo(a, unit), RoundTo(b, unit), unit \div 100)

\* a + b
Plus(a, b) ==
    IF a[2] = 0 /\ b[2] = 0
    THEN (IF a = b THEN a ELSE NaN)
    ELSE PlusAt(a, b, 10000)

Minus(a, b) == Plus(a, Neg(b))

\* 1 / b: 1 / 0 is Infinity, 1 / Infinity is 0.
Reciprocal(b) ==
    IF b = NaN THEN NaN
    ELSE IF b[1] = 0 THEN PosInf
    ELSE <<b[2] * Sign(b[1]), IAbs(b[1])>>

Over(a, b) == Times(a, Reciprocal(b))

\* a < b and a <= b; false when either is NaN.
Less(a, b) == a # NaN /\ b # NaN /\ a # b /\ Minus(a, b)[1] < 0
LessEq(a, b) == a # NaN /\ b # NaN /\ (a = b \/ Minus(a, b)[1] < 0)

\* Math.max(a, b)
MathMax(a, b) == IF a = NaN \/ b = NaN THEN NaN ELSE IF Less(a, b) THEN b ELSE a

---------------------------------------------------------------------------
(* Math.sqrt, Math.exp and Math.log.  Their values are irrational almost    *)
(* everywhere; they are computed in fixed point, in units of 1/Fx, rounded  *)
(* down, and are exact where the code depends on the exact value:           *)
(* sqrt of a square of a fraction, exp(0) = 1, exp(-Infinity) = 0,          *)
(* log(1) = 0, log(0) = -Infinity.                                          *)

Fx == 10000

\* floor(c * f / Fx) for an integer c and 0 <= f, without forming c * f.
FxTimes(c, f) == (c \div Fx) * f + ((c % Fx) * f) \div Fx

\* floor(x * Fx) for a finite x, 0 <= x < 100000.  A denominator above 10^5 is
\* first reduced to five digits.
ToFx(x) ==
    LET s == x[2] \div 100000 + 1
        n == x[1] \div s
        d == x[2] \div s
    IN  (n \div d) * Fx + ((n % d) * Fx) \div d

RECURSIVE ISqrtBetween(_, _, _)
ISqrtBetween(n, lo, hi) ==
    IF lo = hi THEN lo
    ELSE LET mid == (lo + hi + 1) \div 2
         IN  IF mid * mid <= n THEN ISqrtBetween(n, mid, hi)
             ELSE ISqrtBetween(n, lo, mid - 1)

\* floor(sqrt(n)) for a natural number n
ISqrt(n) == ISqrtBetween(n, 0, 46340)

IsSquare(n) == ISqrt(n) * ISqrt(n) = n

\* Math.sqrt(x)
Sqrt(x) ==
    IF x = NaN \/ x[1] < 0 THEN NaN
    ELSE IF x = PosInf THEN PosInf
    ELSE IF IsSquare(x[1]) /\ IsSquare(x[2])
    THEN Rat(ISqrt(x[1]), ISqrt(x[2]))
    ELSE Rat(ISqrt(ToFx(x) * Fx), Fx)

EXP_MINUS_1 == 3679
EXP_TERMS == 9

\* The Taylor series of e^(-f), 0 <= f < Fx in fixed point: the sum of the
\* terms j .. EXP_TERMS, where `term` is f^j / j!.
RECURSIVE ExpSeries(_, _, _)
ExpSeries(f, term, j) ==
    IF j > EXP_TERMS \/ term = 0 THEN 0
    ELSE term - ExpSeries(f, (term * f) \div (Fx * (j + 1)), j + 1)

\* e^(-k) * v for a natural number k
RECURSIVE ExpShift(_, _)
ExpShift(v, k) == IF k = 0 \/ v = 0 THEN v ELSE ExpShift((v * EXP_MINUS_1) \div Fx, k - 1)

\* e^(-y) in fixed point for y >= 0 in fixed point
ExpNegFx(y) == ExpShift(ExpSeries(y % Fx, Fx, 0), y \div Fx)

\* e^(-y) in fixed point for a number y >= 0; 0 from y = 10 on.
ExpNeg(y) == IF LessEq(Num(10), y) THEN 0 ELSE ExpNegFx(ToFx(y))

\* Math.exp(x)
Exp(x) ==
    IF x = NaN THEN NaN
    ELSE IF x[1] <= 0 THEN Rat(ExpNeg(Neg(x)), Fx)
    ELSE Reciprocal(Rat(ExpNeg(x), Fx))

LN_2 == 6931
LN_10 == 23026

\* 2 * atanh(z) = 2 * (z + z^3/3 + z^5/5 + z^7/7 + z^9/9), z in fixed point
LogSeries(z) ==
    LET z2 == FxTimes(z, z)
        z3 == FxTimes(z, z2)
        z5 == FxTimes(z3, z2)
        z7 == FxTimes(z5, z2)
        z9 == FxTimes(z7, z2)
    IN  2 * (z + z3 \div 3 + z5 \div 5 + z7 \div 7 + z9 \div 9)

\* ln(x) in fixed point for a finite x > 0, halved or doubled into [1/2, 2]
\* and then ln(x) = 2 * atanh((x - 1) / (x + 1)).
RECURSIVE LogFx(_)
LogFx(x) ==
    IF Less(Num(2), x) THEN LN_2 + LogFx(Times(x, Rat(1, 2)))
    ELSE IF Less(x, Rat(1, 2)) THEN LogFx(Times(x, Num(2))) - LN_2
    ELSE LET z == Over(Minus(x, Num(1)), Plus(x, Num(1)))
         IN  Sign(z[1]) * LogSeries(ToFx(Abs(z)))

\* Math.log(x)
Log(x) ==
    IF x = NaN \/ x[1] < 0 THEN NaN
    ELSE IF x = PosInf THEN PosInf
    ELSE IF x[1] = 0 THEN NegInf
    ELSE Rat(LogFx(x), Fx)

\* Math.log10(x)
Log10(x) == Over(Log(x), Rat(LN_10, Fx))

---------------------------------------------------------------------------
(* normPdf, normCdf, erf (src/lib/calculations/black-scholes.ts) *)

PI == Rat(31416, 10000)

\* Math.exp(-0.5 * x * x), in fixed point; 0 from |x| = 5 on.
ExpMinusHalfSquare(x) ==
    IF x = NaN THEN NaN
    ELSE IF LessEq(Num(5), Abs(x)) THEN Num(0)
    ELSE LET a == ToFx(Abs(x))
         IN  Rat(ExpNegFx(FxTimes(a, a) \div 2), Fx)

normPdf(x) ==
    Times(Over(Num(1), Sqrt(Times(Num(2), PI))), ExpMinusHalfSquare(x))

Nano == 1000000000

\* 0.3275911, in units of 10^-7
ERF_P == 3275911
ERF_P_UNIT == 10000000

\* The coefficients, in units of 10^-9
coefficients ==
    <<254829592, -284496736, 1421413741, -1453152027, 1061405429>>

\* t = 1 / (1 + 0.3275911 * absX), absX and t in fixed point
ErfT(absX) == ToFx(Rat(ERF_P_UNIT, ERF_P_UNIT + FxTimes(ERF_P, absX)))

\* c * Math.pow(t, k), in the unit of c
RECURSIVE ErfTerm(_, _, _)
ErfTerm(c, t, k) == IF k = 0 THEN c ELSE FxTimes(ErfTerm(c, t, k - 1), t)

\* coefficients.reduce((acc, c, index) => acc + c * Math.pow(t, index + 1), 0)
RECURSIVE ErfPoly(_, _)
ErfPoly(t, index) ==
    IF index = 0 THEN 0
    ELSE ErfPoly(t, index - 1) + ErfTerm(coefficients[index], t, index)

\* poly * Math.exp(-absX * absX), in units of 10^-9, for 0 <= absX < 6
ErfTail(absX) ==
    LET a == ToFx(absX)
    IN  FxTimes(ErfPoly(ErfT(a), Len(coefficients)), ExpNegFx(FxTimes(a, a)))

\* erf with the sign left out: erf(|x|).
erf_NoSign(x) ==
    IF x = NaN THEN NaN
    ELSE LET absX == Abs(x)
         IN  IF LessEq(Num(6), absX) THEN Num(1)
             ELSE IF absX[1] = 0
             THEN Rat(Nano - ErfTail(absX), Nano)
             ELSE Rat(Fx - ErfTail(absX) \div (Nano \div Fx), Fx)

\* sign * (1 - poly * Math.exp(-absX * absX)).  At absX = 0, where t = 1 and
\* the exponential is 1, the value is exact: 1 minus the sum of the
\* coefficients.  Elsewhere it is rounded to fixed point; from absX = 6 on the
\* product is below 10^-9 and the value is sign * 1.
erf(x) ==
    IF x = NaN THEN NaN
    ELSE LET sign == IF LessEq(Num(0), x) THEN 1 ELSE -1
             absX == Abs(x)
         IN  IF LessEq(Num(6), absX) THEN Num(sign)
             ELSE IF absX[1] = 0
             THEN Rat(sign * (Nano - ErfTail(absX)), Nano)
             ELSE Rat(sign * (Fx - ErfTail(absX) \div (Nano \div Fx)), Fx)

normCdf(x) == Times(Rat(1, 2), Plus(Num(1), erf(Over(x, Sqrt(Num(2))))))

---------------------------------------------------------------------------
(* calculateBlackScholes *)

EPSILON == Rat(1, 100000000)
SIGMA_FALLBACK == Rat(1, 10000)

ensurePositive(value, fallback) ==
    IF isFiniteNumber(value) /\ value[1] > 0 THEN value ELSE fallback

\* The constants of calculateBlackScholes that its outputs are built from.
BlackScholesTerms(S, K, T, r, q, sigma) ==
    LET safeSigma == ensurePositive(sigma, SIGMA_FALLBACK)
        safeT == ensurePositive(T, EPSILON)
        sqrtT == Sqrt(safeT)
        d1 == Over(Plus(Log(Over(S, K)),
                        Times(Plus(Minus(r, q),
                                   Times(Times(Rat(1, 2), safeSigma),
                                         safeSigma)),
                              safeT)),
                   Times(safeSigma, sqrtT))
    IN  [safeSigma |-> safeSigma, safeT |-> safeT, sqrtT |-> sqrtT,
         d1 |-> d1, d2 |-> Minus(d1, Times(safeSigma, sqrtT)),
         discount |-> Exp(Times(Neg(q), safeT)),
         discountedSpot |-> Times(S, Exp(Times(Neg(q), safeT))),
         discountedStrike |-> Times(K, Exp(Times(Neg(r), safeT)))]

\* The returned object, from the constants v of BlackScholesTerms.  The
\* values of normCdf and normPdf that the source computes at each use are
\* named once.
BlackScholesOutputs(S, K, r, q, optionType, v) ==
    LET isCall == optionType = "call"
        cdfD1 == normCdf(v.d1)
        cdfD2 == normCdf(v.d2)
        cdfNegD1 == normCdf(Neg(v.d1))
        cdfNegD2 == normCdf(Neg(v.d2))
        pdfD1 == normPdf(v.d1)
        decay == Over(Times(Times(Times(Neg(v.discount), S), pdfD1),
                            v.safeSigma),
                      Times(Num(2), v.sqrtT))
    IN  [price |->
             IF isCall
             THEN Minus(Times(v.discountedSpot, cdfD1),
                        Times(v.discountedStrike, cdfD2))
             ELSE Minus(Times(v.discountedStrike, cdfNegD2),
                        Times(v.discountedSpot, cdfNegD1)),
         delta |->
             IF isCall
             THEN Times(v.discount, cdfD1)
             ELSE Times(v.discount, Minus(cdfD1, Num(1))),
         gamma |->
             Over(Times(v.discount, pdfD1),
                  Times(Times(S, v.safeSigma), v.sqrtT)),
         theta |->
             IF isCall
             THEN Plus(Minus(decay,
                             Times(Times(r, v.discountedStrike), cdfD2)),
                       Times(Times(q, v.discountedSpot), cdfD1))
             ELSE Minus(Plus(decay,
                             Times(Times(r, v.discountedStrike), cdfNegD2)),
                        Times(Times(q, v.discountedSpot), cdfNegD1)),
         vega |-> Times(Times(v.discountedSpot, pdfD1), v.sqrtT),
         rho |->
             IF isCall
             THEN Times(Times(v.safeT, v.discountedStrike), cdfD2)
             ELSE Times(Times(Neg(v.safeT), v.discountedStrike), cdfNegD2),
         probabilityITM |-> IF isCall THEN cdfD2 ELSE cdfNegD2,
         expectedMove |-> Times(Times(S, v.safeSigma), Sqrt(v.safeT))]

calculateBlackScholes(S, K, T, r, q, sigma, optionType) ==
    CHOOSE outputs \in {BlackScholesOutputs(S, K, r, q, optionType, v) :
                             v \in {BlackScholesTerms(S, K, T, r, q, sigma)}} :
        TRUE

---------------------------------------------------------------------------
(* buildOptionAnalytics *)

MONEINESS_TOLERANCE == Rat(5, 1000)
SECONDS_PER_YEAR == 365 * 24 * 60 * 60
MILLIS_PER_SECOND == 1000

\* expiration and clock are expiration.getTime() and now.getTime(), integers.
\* The divisor 365 * 24 * 60 * 60 * 1000 is applied in two steps.
toYearFraction(expiration, clock) ==
    LET millis == MathMax(Num(expiration - clock), EPSILON)
    IN  Over(Over(millis, Num(SECONDS_PER_YEAR)), Num(MILLIS_PER_SECOND))

\* |point.price - price| for every point of the curve, in the curve's order
PriceDistances(curve, price) ==
    LET distance == [k \in 1..Len(curve) |->
                        Abs(Minus(curve[k].price, price))]
    IN  SubSeq(distance, 1, Len(curve))

\* The index of the point curve.reduce(...) returns.  The callback replaces
\* prev only by a point strictly closer to price, so what is left is the first
\* of the points at the least distance.
ClosestPoint(curve, price) ==
    LET distance == PriceDistances(curve, price)
    IN  CHOOSE k \in 1..Len(curve) :
            \A j \in 1..Len(curve) :
                IF j < k
                THEN Less(distance[k], distance[j])
                ELSE LessEq(distance[k], distance[j])

\* payoffAtPrice that returns the profit of the first point of the curve.
payoffAtPrice_First(curve, price) == curve[1].profit

payoffAtPrice(curve, price) == curve[ClosestPoint(curve, price)].profit

\* maxProfit with the long and the short branch exchanged.
MaxProfit_Exchanged(strike, optionType, position, quantity, premium) ==
    IF optionType = "call"
    THEN (IF position = "short" THEN Null
          ELSE Times(premium, Times(quantity, Num(CONTRACT_SIZE))))
    ELSE IF position = "short"
    THEN Times(Times(MathMax(Minus(strike, premium), Num(0)),
                     Num(CONTRACT_SIZE)),
               quantity)
    ELSE Times(premium, Times(quantity, Num(CONTRACT_SIZE)))

MaxProfit(strike, optionType, position, quantity, premium) ==
    IF optionType = "call"
    THEN (IF position = "long" THEN Null
          ELSE Times(premium, Times(quantity, Num(CONTRACT_SIZE))))
    ELSE IF position = "long"
    THEN Times(Times(MathMax(Minus(strike, premium), Num(0)),
                     Num(CONTRACT_SIZE)),
               quantity)
    ELSE Times(premium, Times(quantity, Num(CONTRACT_SIZE)))

MaxLoss(strike, optionType, position, quantity, premium) ==
    IF optionType = "call"
    THEN (IF position = "long"
          THEN Times(premium, Times(quantity, Num(CONTRACT_SIZE)))
          ELSE Null)
    ELSE IF position = "long"
    THEN Times(premium, Times(quantity, Num(CONTRACT_SIZE)))
    ELSE Times(Times(MathMax(Minus(strike, premium), Num(0)),
                     Num(CONTRACT_SIZE)),
               quantity)

\* Moneyness with the tolerance band excluded at its boundary.
Moneyness_Strict(resolvedPrice, strike, optionType) ==
    LET priceDelta == Abs(Minus(resolvedPrice, strike))
        toleranceBand == Times(MathMax(resolvedPrice, strike),
                               MONEINESS_TOLERANCE)
    IN  IF Less(priceDelta, toleranceBand) THEN "ATM"
        ELSE IF (IF optionType = "call"
                 THEN Less(strike, resolvedPrice)
                 ELSE Less(resolvedPrice, strike))
        THEN "ITM"
        ELSE "OTM"

Moneyness(resolvedPrice, strike, optionType) ==
    LET priceDelta == Abs(Minus(resolvedPrice, strike))
        toleranceBand == Times(MathMax(resolvedPrice, strike),
                               MONEINESS_TOLERANCE)
    IN  IF LessEq(priceDelta, toleranceBand) THEN "ATM"
        ELSE IF (IF optionType = "call"
                 THEN Less(strike, resolvedPrice)
                 ELSE Less(resolvedPrice, strike))
        THEN "ITM"
        ELSE "OTM"

\* typeof maxLoss === "number" && maxLoss > 0 ? ... : null
AnnualizedReturn(maxLoss, curve, resolvedPrice, expectedMove, timeToExpiry) ==
    IF maxLoss # Null /\ Less(Num(0), maxLoss)
    THEN Over(Over(payoffAtPrice(curve, Plus(resolvedPrice, expectedMove)),
                   maxLoss),
              MathMax(timeToExpiry, EPSILON))
    ELSE Null

\* The local variables timeToExpiry and bs; clock is the value of new Date().
AnalyticsLocals(input, resolvedPrice, impliedVol, clock) ==
    LET timeToExpiry == toYearFraction(input.expiration, clock)
    IN  [timeToExpiry |-> timeToExpiry,
         bs |-> calculateBlackScholes(resolvedPrice, input.strike,
                                      timeToExpiry, input.interestRate,
                                      input.dividendYield, impliedVol,
                                      input.optionType)]

\* The returned object, from the locals l of AnalyticsLocals and the curve.
AnalyticsOutputs(input, resolvedPrice, premium, l, payoffAtExpiration) ==
    LET strike == input.strike
        optionType == input.optionType
        position == input.position
        quantity == Num(input.quantity)
        positionMultiplier == IF position = "long" THEN Num(1) ELSE Num(-1)
        bs == l.bs
        contractMultiplier == Times(quantity, Num(CONTRACT_SIZE))
        effectiveQuantity == Times(contractMultiplier, positionMultiplier)
        maxLoss == MaxLoss(strike, optionType, position, quantity, premium)
        intrinsicPerShare ==
            IF optionType = "call"
            THEN MathMax(Minus(resolvedPrice, strike), Num(0))
            ELSE MathMax(Minus(strike, resolvedPrice), Num(0))
        premiumPerContract == Times(premium, Num(CONTRACT_SIZE))
        intrinsicValuePerContractLong ==
            Times(intrinsicPerShare, Num(CONTRACT_SIZE))
        timeValuePerContractLong ==
            MathMax(Minus(premiumPerContract, intrinsicValuePerContractLong),
                    Num(0))
        intrinsicValuePerContract ==
            Times(intrinsicValuePerContractLong, positionMultiplier)
        timeValuePerContract ==
            Times(timeValuePerContractLong, positionMultiplier)
    IN  [underlyingPrice |-> resolvedPrice,
         position |-> position,
         breakEven |-> IF optionType = "call" THEN Plus(strike, premium)
                       ELSE Minus(strike, premium),
         maxProfit |->
             MaxProfit(strike, optionType, position, quantity, premium),
         maxLoss |-> maxLoss,
         probabilityInTheMoney |-> bs.probabilityITM,
         expectedMove |-> bs.expectedMove,
         annualizedReturn |->
             AnnualizedReturn(maxLoss, payoffAtExpiration, resolvedPrice,
                              bs.expectedMove, l.timeToExpiry),
         payoffAtExpiration |-> payoffAtExpiration,
         greeks |-> [delta |-> bs.delta, gamma |-> bs.gamma,
                     theta |-> Over(bs.theta, Num(365)),
                     vega |-> Over(bs.vega, Num(100)),
                     rho |-> Over(bs.rho, Num(100))],
         moneyness |-> Moneyness(resolvedPrice, strike, optionType),
         premiumPerContract |-> premiumPerContract,
         positionPremium |->
             Times(Times(premiumPerContract, quantity), positionMultiplier),
         intrinsicValuePerContract |-> intrinsicValuePerContract,
         intrinsicValueTotal |-> Times(intrinsicValuePerContract, quantity),
         timeValuePerContract |-> timeValuePerContract,
         timeValueTotal |-> Times(timeValuePerContract, quantity),
         contracts |-> quantity,
         contractSize |-> Num(CONTRACT_SIZE)]

\* The quantity passed to generateProfitCurve: contracts * CONTRACT_SIZE,
\* negated for a short position.
EffectiveQuantity(input) ==
    Times(Times(Num(input.quantity), Num(CONTRACT_SIZE)),
          IF input.position = "long" THEN Num(1) ELSE Num(-1))

\* l and payoffAtExpiration are computed once, as the constants of the source.
buildOptionAnalytics(input, resolvedPrice, impliedVol, premium, clock) ==
    CHOOSE outputs \in
        {AnalyticsOutputs(input, resolvedPrice, premium, l, payoffAtExpiration) :
            l \in {AnalyticsLocals(input, resolvedPrice, impliedVol, clock)},
            payoffAtExpiration \in {generateProfitCurve(
                [currentPrice |-> resolvedPrice, strike |-> input.strike,
                 premium |-> premium, optionType |-> input.optionType,
                 quantity |-> EffectiveQuantity(input),
                 priceSteps |-> Null, rangeMultiplier |-> Null])}} :
        TRUE

AnalyticsPrices == {Num(0), Num(100), Num(200)}
AnalyticsStrikes == {Num(100), Num(199)}
AnalyticsPremiums == {Num(0), Rat(5, 2), Num(250)}
AnalyticsVolatilities == {Rat(1, 2), Num(0)}
AnalyticsRates == {Rat(1, 20)}
AnalyticsYields == {Num(0)}

\* expiration.getTime(), and the clock readings before it: 1971000000 ms
\* (1/16 year) and 219 ms before the expiration.  A time to expiry
\* below 2^-31 year (an expired option's 10^-8 ms) is outside the numbers of
\* the model.
EXPIRATION == 1971000000
ClockTimes == {0, EXPIRATION - 219}

AnalysisInputs ==
    [strike : AnalyticsStrikes, optionType : OptionTypes,
     position : Positions, dividendYield : AnalyticsYields,
     interestRate : AnalyticsRates, quantity : Quantities,
     expiration : {EXPIRATION}]

AnalyticsArguments ==
    [input : AnalysisInputs, resolvedPrice : AnalyticsPrices,
     impliedVol : AnalyticsVolatilities, premium : AnalyticsPremiums]

InitAnalytics ==
    /\ pc = "idle"
    /\ NoServices
    /\ args \in AnalyticsArguments
    /\ now \in ClockTimes
    /\ contracts = << >>
    /\ indexPrice = Null
    /\ openInterest = << >>
    /\ timeline = << >>
    /\ anchorTimestamp = 0
    /\ options = Null
    /\ result = Null
    /\ locals = Null

\* An invocation, the first or a later one with the same arguments: l is
\* what timeToExpiry and bs hold, curve what payoffAtExpiration holds.
CallBuildOptionAnalytics ==
    /\ pc' = "done"
    /\ \E l \in {AnalyticsLocals(args.input, args.resolvedPrice,
                                  args.impliedVol, now)},
          curve \in {generateProfitCurve(
                        [currentPrice |-> args.resolvedPrice,
                         strike |-> args.input.strike,
                         premium |-> args.premium,
                         optionType |-> args.input.optionType,
                         quantity |-> EffectiveQuantity(args.input),
                         priceSteps |-> Null, rangeMultiplier |-> Null])} :
          /\ locals' = l
          /\ result' = AnalyticsOutputs(args.input, args.resolvedPrice,
                                        args.premium, l, curve)
    /\ UNCHANGED <<contracts, indexPrice, openInterest, timeline,
                   anchorTimestamp, options, args, now, services>>

\* Time passes between invocations.
Tick ==
    /\ \E later \in ClockTimes : later > now /\ now' = later
    /\ UNCHANGED <<pc, contracts, indexPrice, openInterest, timeline,
                   anchorTimestamp, options, args, result, locals,
                   services>>

NextAnalytics == CallBuildOptionAnalytics \/ Tick

SpecAnalytics == InitAnalytics /\ [][NextAnalytics]_vars

---------------------------------------------------------------------------
(* Properties of buildOptionAnalytics *)

Called == pc = "done"

IsLongCall == args.input.optionType = "call" /\ args.input.position = "long"

\* C12: for a long call, the sampled prices of the payoff curve are in
\* ascending order and the profit does not decrease from one sample to the
\* next, and at every sampled price at or below the strike the profit is
\* -premium * quantity * 100.
C12_LongCallCurve ==
    (Called /\ IsLongCall) =>
        LET curve == result.payoffAtExpiration
        IN  /\ \A k \in 1..(Len(curve) - 1) :
                  /\ LessEq(curve[k].price, curve[k + 1].price)
                  /\ LessEq(curve[k].profit, curve[k + 1].profit)
            /\ \A k \in 1..Len(curve) :
                  LessEq(curve[k].price, args.input.strike)
                      => curve[k].profit
                             = Neg(Times(Times(args.premium,
                                               Num(args.input.quantity)),
                                         Num(100)))

\* A long call with a premium whose curve has samples on both sides of the
\* strike, the profit above the strike exceeding the flat loss below it.
C12_Witness ==
    /\ Called
    /\ IsLongCall
    /\ Less(Num(0), args.premium)
    /\ LET curve == result.payoffAtExpiration
       IN  /\ Len(curve) = 61
           /\ Less(curve[1].price, args.input.strike)
           /\ Less(args.input.strike, curve[61].price)
           /\ Less(curve[1].profit, curve[61].profit)

\* premium * 100 * qty
PremiumTotal == Times(Times(args.premium, Num(100)), Num(args.input.quantity))

\* max(strike - premium, 0) * 100 * qty
StrikeLessPremiumTotal ==
    Times(Times(MathMax(Minus(args.input.strike, args.premium), Num(0)),
                Num(100)),
          Num(args.input.quantity))

\* C13: max profit and max loss by option type and position.  Long call:
\* maxLoss = premium * 100 * qty, maxProfit = null.  Short call: maxProfit =
\* premium * 100 * qty, maxLoss = null.  Long put: maxLoss = premium * 100 *
\* qty, maxProfit = max(strike - premium, 0) * 100 * qty.  Short put:
\* maxProfit = premium * 100 * qty, maxLoss = max(strike - premium, 0) * 100
\* * qty.
C13_MaxProfitAndLoss ==
    Called =>
        LET optionType == args.input.optionType
            position == args.input.position
        IN  /\ (optionType = "call" /\ position = "long") =>
                   (result.maxLoss = PremiumTotal /\ result.maxProfit = Null)
            /\ (optionType = "call" /\ position = "short") =>
                   (result.maxProfit = PremiumTotal /\ result.maxLoss = Null)
            /\ (optionType = "put" /\ position = "long") =>
                   /\ result.maxLoss = PremiumTotal
                   /\ result.maxProfit = StrikeLessPremiumTotal
            /\ (optionType = "put" /\ position = "short") =>
                   /\ result.maxProfit = PremiumTotal
                   /\ result.maxLoss = StrikeLessPremiumTotal

\* Two short puts struck at 100 for a premium of 2.5: the maximum profit is
\* 500 and the maximum loss 19500.
C13_Witness ==
    /\ Called
    /\ args.input.optionType = "put"
    /\ args.input.position = "short"
    /\ args.input.quantity = 2
    /\ args.input.strike = Num(100)
    /\ args.premium = Rat(5, 2)
    /\ result.maxProfit = Num(500)
    /\ result.maxLoss = Num(19500)

\* |spot - strike| <= max(spot, strike) * 0.005
WithinTolerance ==
    LessEq(Abs(Minus(args.resolvedPrice, args.input.strike)),
           Times(MathMax(args.resolvedPrice, args.input.strike),
                 Rat(5, 1000)))

\* (call and spot > strike) or (put and spot < strike)
SpotBeyondStrike ==
    \/ /\ args.input.optionType = "call"
       /\ Less(args.input.strike, args.resolvedPrice)
    \/ /\ args.input.optionType = "put"
       /\ Less(args.resolvedPrice, args.input.strike)

\* C14: moneyness is one of ATM, ITM and OTM; it is ATM exactly when
\* |spot - strike| <= max(spot, strike) * 0.005, the boundary included;
\* otherwise ITM when (call and spot > strike) or (put and spot < strike);
\* otherwise OTM.
C14_MoneynessClasses ==
    Called =>
        /\ result.moneyness \in {"ATM", "ITM", "OTM"}
        /\ result.moneyness = "ATM" <=> WithinTolerance
        /\ result.moneyness = "ITM" <=> (~WithinTolerance /\ SpotBeyondStrike)
        /\ result.moneyness = "OTM" <=> (~WithinTolerance /\ ~SpotBeyondStrike)

\* Spot 200 and strike 199: the difference 1 is the tolerance 200 * 0.005
\* itself, and the call, whose strike is below the spot, is ATM.
C14_Witness ==
    /\ Called
    /\ args.resolvedPrice = Num(200)
    /\ args.input.strike = Num(199)
    /\ args.input.optionType = "call"
    /\ Abs(Minus(args.resolvedPrice, args.input.strike))
           = Times(MathMax(args.resolvedPrice, args.input.strike),
                   Rat(5, 1000))
    /\ result.moneyness = "ATM"

\* spot + expectedMove
ExpectedPrice == Plus(args.resolvedPrice, result.expectedMove)

\* The point at index k of the payoff curve is nearest to spot +
\* expectedMove: no point's price is strictly closer.
IsNearestPoint(k) ==
    LET curve == result.payoffAtExpiration
    IN  \A j \in 1..Len(curve) :
            ~Less(Abs(Minus(curve[j].price, ExpectedPrice)),
                  Abs(Minus(curve[k].price, ExpectedPrice)))

\* C15: annualizedReturn is null when maxLoss is null or zero; when maxLoss
\* is a positive number it is the profit of a payoff-curve point nearest to
\* spot + expectedMove, divided by maxLoss and by the time to expiry floored
\* at epsilon.
C15_AnnualizedReturn ==
    Called =>
        /\ (result.maxLoss = Null \/ result.maxLoss = Num(0)) =>
               result.annualizedReturn = Null
        /\ (result.maxLoss # Null /\ Less(Num(0), result.maxLoss)) =>
               \E k \in 1..Len(result.payoffAtExpiration) :
                   /\ result.annualizedReturn
                          = Over(Over(result.payoffAtExpiration[k].profit,
                                      result.maxLoss),
                                 IF Less(locals.timeToExpiry, EPSILON)
                                 THEN EPSILON
                                 ELSE locals.timeToExpiry)
                   /\ IsNearestPoint(k)

\* A long call struck at 199 with the spot at 100, bought for 2.5, 219 ms
\* before it expires: the time to expiry is below epsilon, the nearest point
\* is the 21st (price 100), where the whole premium is lost, and the
\* annualized return is -1 / epsilon.
C15_Witness ==
    /\ Called
    /\ IsLongCall
    /\ args.resolvedPrice = Num(100)
    /\ args.input.strike = Num(199)
    /\ args.premium = Rat(5, 2)
    /\ Less(Num(0), result.maxLoss)
    /\ Less(locals.timeToExpiry, EPSILON)
    /\ IsNearestPoint(21)
    /\ ~IsNearestPoint(1)
    /\ result.annualizedReturn = Num(-100000000)

\* C18: buildOptionAnalytics is pure: an invocation that follows another with
\* the same arguments returns the same result, whenever it runs.
C18_SameArgumentsSameResult ==
    [][(Called /\ pc' = "done" /\ args' = args) => result' = result]_vars

---------------------------------------------------------------------------
(* calculateBlackScholes for a call and for the put of the same inputs *)

SpotPrices == {Num(0), Num(1), Num(2)}
StrikePrices == {Num(1), Num(2)}
YearFractions == {Num(0), Rat(1, 4), Num(1)}
InterestRates == {Rat(1, 8), Rat(1, 4)}
DividendYields == {Rat(1, 8), Rat(1, 4)}
Volatilities == {Num(0), Rat(1, 2), Num(1)}

BlackScholesArguments ==
    [S : SpotPrices, K : StrikePrices, T : YearFractions,
     r : InterestRates, q : DividendYields, sigma : Volatilities]

InitBlackScholes ==
    /\ pc = "idle"
    /\ NoServices
    /\ args \in BlackScholesArguments
    /\ now = 0
    /\ contracts = << >>
    /\ indexPrice = Null
    /\ openInterest = << >>
    /\ timeline = << >>
    /\ anchorTimestamp = 0
    /\ options = Null
    /\ result = Null
    /\ locals = Null

CallCalculateBlackScholes ==
    /\ pc = "idle"
    /\ pc' = "done"
    /\ result' = [optionType \in OptionTypes |->
                     calculateBlackScholes(args.S, args.K, args.T, args.r,
                                           args.q, args.sigma, optionType)]
    /\ locals' = BlackScholesTerms(args.S, args.K, args.T, args.r, args.q,
                                   args.sigma)
    /\ UNCHANGED <<contracts, indexPrice, openInterest, timeline,
                   anchorTimestamp, options, args, now, services>>

NextBlackScholes == CallCalculateBlackScholes

SpecBlackScholes == InitBlackScholes /\ [][NextBlackScholes]_vars

BlackScholesPayload ==
    {"price", "delta", "gamma", "theta", "vega", "rho", "probabilityITM",
     "expectedMove"}

\* C16: for every input, the degenerate ones included, the divisors of
\* calculateBlackScholes (safeSigma * sqrtT, S * safeSigma * sqrtT and
\* 2 * sqrtT) are non-zero numbers and every output, of the call and of the
\* put, is a finite number.
C16_DivisorsValid ==
    Called =>
        /\ \A divisor \in {Times(locals.safeSigma, locals.sqrtT),
                           Times(Times(args.S, locals.safeSigma),
                                 locals.sqrtT),
                           Times(Num(2), locals.sqrtT)} :
               isFiniteNumber(divisor) /\ divisor # Num(0)
        /\ \A optionType \in OptionTypes :
               \A output \in BlackScholesPayload :
                   isFiniteNumber(result[optionType][output])

PositiveInputs ==
    \A input \in {args.S, args.K, args.T, args.r, args.q, args.sigma} :
        Less(Num(0), input)

\* call price - put price = S * e^(-qT) - K * e^(-rT)
Parity ==
    Minus(result["call"].price, result["put"].price)
        = Minus(locals.discountedSpot, locals.discountedStrike)

\* normCdf(x) + normCdf(-x) = 1
Complementary(x) == Plus(normCdf(x), normCdf(Neg(x))) = Num(1)

\* C17: for all S, K, T, r, q, sigma > 0 the call price minus the put price
\* is S * e^(-qT) - K * e^(-rT), and normCdf(x) + normCdf(-x) = 1 at d1 and
\* at d2.
C17_PutCallParity ==
    (Called /\ PositiveInputs) =>
        Parity /\ Complementary(locals.d1) /\ Complementary(locals.d2)

\* C17, with d1 and d2 other than 0: for all S, K, T, r, q, sigma > 0 whose
\* d1 and d2 are not 0, the call price minus the put price is
\* S * e^(-qT) - K * e^(-rT), and normCdf(x) + normCdf(-x) = 1 at d1 and at
\* d2.  At x = 0, erf(0) is 10^-9 (1 minus the sum of the coefficients) and
\* normCdf(0) + normCdf(-0) is 1 + 10^-9.
C17_PutCallParityAwayFromZero ==
    /\ (Called /\ PositiveInputs /\ locals.d1 # Num(0) /\ locals.d2 # Num(0))
           => Parity /\ Complementary(locals.d1) /\ Complementary(locals.d2)
    /\ Called =>
           \A x \in {locals.d1, locals.d2} :
               x = Num(0) =>
                   Plus(normCdf(x), normCdf(Neg(x))) = Rat(Nano + 1, Nano)

\* An in-the-money call and its put, with 0 < d2 < d1: both have a positive
\* price, and parity holds between them.
C17_Witness ==
    /\ Called
    /\ PositiveInputs
    /\ Less(args.K, args.S)
    /\ Less(Num(0), locals.d2)
    /\ Less(locals.d2, locals.d1)
    /\ Less(Num(0), result["put"].price)
    /\ Less(result["put"].price, result["call"].price)
    /\ Parity

---------------------------------------------------------------------------
(* computeDealerGexForExpiry (src/unnamed/part_004) *)

\* Map.get(sym) of a possibly undefined map: undefined when the map or the
\* key is absent.  A map is a function on the symbols it has.
MapGet(map, sym) ==
    IF map = Null THEN Null
    ELSE IF sym \in DOMAIN map THEN map[sym]
    ELSE Null

\* m?.gamma ?? null
GammaOf(markEntriesBySymbol, sym) ==
    LET m == MapGet(markEntriesBySymbol, sym)
    IN  IF m = Null THEN Null ELSE m.gamma

\* The symbols [row.callSymbol, row.putSymbol] of the rows, in the order of
\* the loops, without the absent ones.
RECURSIVE GridSymbols(_)
GridSymbols(grid) ==
    IF grid = << >> THEN << >>
    ELSE SelectSeq(<<Head(grid).callSymbol, Head(grid).putSymbol>>,
                   LAMBDA sym : sym # Null)
             \o GridSymbols(Tail(grid))

\* contrib, with a missing open interest read as 0.
GexContribution(markEntriesBySymbol, oiBySymbol, s2, unitBySymbol, sym) ==
    Times(Times(Times(GammaOf(markEntriesBySymbol, sym),
                      OrDefault(MapGet(oiBySymbol, sym), Num(0))),
                OrDefault(MapGet(unitBySymbol, sym), Num(1))),
          s2)

\* agg after the symbols syms, from agg
RECURSIVE GexAggregate(_, _, _, _, _, _)
GexAggregate(syms, markEntriesBySymbol, oiBySymbol, s2, unitBySymbol, agg) ==
    IF syms = << >> THEN agg
    ELSE GexAggregate(
             Tail(syms), markEntriesBySymbol, oiBySymbol, s2, unitBySymbol,
             IF GammaOf(markEntriesBySymbol, Head(syms)) = Null THEN agg
             ELSE Plus(agg,
                       GexContribution(markEntriesBySymbol, oiBySymbol, s2,
                                       unitBySymbol, Head(syms))))

\* index is the parameter indexPrice.
computeDealerGexForExpiry(grid, markEntriesBySymbol, oiBySymbol, index, unitBySymbol) ==
    LET syms == GridSymbols(grid)
        gotAny == \E k \in 1..Len(syms) :
                      GammaOf(markEntriesBySymbol, syms[k]) # Null
    IN  [gex |-> IF gotAny
                 THEN GexAggregate(syms, markEntriesBySymbol, oiBySymbol,
                                   Times(index, index), unitBySymbol,
                                   Num(0))
                 ELSE Null]

MaxGridRows == 1

\* The strike and the symbols of the row at position k of a grid
StrikeAt(k) == Num(90 + 10 * k)
CallSymbolAt(k) == <<"C", k>>
PutSymbolAt(k) == <<"P", k>>

\* A row has a call symbol, a put symbol or both.
RowsAt(k) ==
    {[strike |-> StrikeAt(k), callSymbol |-> c, putSymbol |-> p] :
        c \in {Null, CallSymbolAt(k)}, p \in {Null, PutSymbolAt(k)}}
        \ {[strike |-> StrikeAt(k), callSymbol |-> Null, putSymbol |-> Null]}

\* The grids of buildContractGrid: rows by increasing strike
Grids ==
    UNION {{grid \in [1..n -> UNION {RowsAt(k) : k \in 1..n}] :
               \A k \in 1..n : grid[k] \in RowsAt(k)} : n \in 0..MaxGridRows}

AllSymbols ==
    UNION {{CallSymbolAt(k), PutSymbolAt(k)} : k \in 1..MaxGridRows}

Gammas == {Null, Rat(1, 100), Rat(-1, 50)}
MarkEntryMaps == [AllSymbols -> [gamma : Gammas]]
OpenInterestMaps ==
    {Null} \cup UNION {[syms -> {Num(5)}] : syms \in SUBSET AllSymbols}
UnitMaps == {Null, [sym \in AllSymbols |-> Num(2)]}
GexIndexPrices == {Num(0), Num(10)}

DealerGexArguments ==
    [grid : Grids, markEntriesBySymbol : MarkEntryMaps,
     oiBySymbol : OpenInterestMaps, indexPrice : GexIndexPrices,
     unitBySymbol : UnitMaps]

InitDealerGex ==
    /\ pc = "idle"
    /\ NoServices
    /\ args \in DealerGexArguments
    /\ now = 0
    /\ contracts = << >>
    /\ indexPrice = Null
    /\ openInterest = << >>
    /\ timeline = << >>
    /\ anchorTimestamp = 0
    /\ options = Null
    /\ result = Null
    /\ locals = Null

CallComputeDealerGexForExpiry ==
    /\ pc = "idle"
    /\ pc' = "done"
    /\ result' = computeDealerGexForExpiry(args.grid,
                                           args.markEntriesBySymbol,
                                           args.oiBySymbol, args.indexPrice,
                                           args.unitBySymbol)
    /\ UNCHANGED <<contracts, indexPrice, openInterest, timeline,
                   anchorTimestamp, options, args, now, locals, services>>

NextDealerGex == CallComputeDealerGexForExpiry

SpecDealerGex == InitDealerGex /\ [][NextDealerGex]_vars

\* The legs of the grid that have a gamma value
LegsWithGamma ==
    {sym \in AllSymbols :
        /\ \E k \in 1..Len(args.grid) :
               sym \in {args.grid[k].callSymbol, args.grid[k].putSymbol}
        /\ GammaOf(args.markEntriesBySymbol, sym) # Null}

\* The open interest supplied for a leg, or null
SuppliedInterest(sym) == MapGet(args.oiBySymbol, sym)

\* The sum over the legs I of gamma * openInterest * contractUnit * S^2
RECURSIVE GexSum(_)
GexSum(I) ==
    IF I = {} THEN Num(0)
    ELSE LET sym == CHOOSE x \in I : TRUE
         IN  Plus(Times(Times(Times(GammaOf(args.markEntriesBySymbol, sym),
                                    SuppliedInterest(sym)),
                              OrDefault(MapGet(args.unitBySymbol, sym),
                                        Num(1))),
                        Times(args.indexPrice, args.indexPrice)),
                  GexSum(I \ {sym}))

\* C19: gex is null when no leg of the grid has a gamma value and when no
\* open interest is supplied for the legs that have one; otherwise it is the
\* sum, over the legs with a gamma value and an open interest, of
\* gamma * openInterest * contractUnit * indexPrice^2.
C19_GexNullWhenInsufficient ==
    Called =>
        IF \A sym \in LegsWithGamma : SuppliedInterest(sym) = Null
        THEN result.gex = Null
        ELSE result.gex
                 = GexSum({sym \in LegsWithGamma :
                              SuppliedInterest(sym) # Null})

---------------------------------------------------------------------------
(* buildContractGrid, computeSentimentForExpiry, computeRR25ForExpiry       *)
(* (src/unnamed/part_004) and buildSnapshotAggregate (src/unnamed/part_001) *)

\* Math.min(a, b)
MathMin(a, b) ==
    IF a = NaN \/ b = NaN THEN NaN ELSE IF Less(b, a) THEN b ELSE a

\* The numbers of S in ascending order: sort((a, b) => a[0] - b[0])
RECURSIVE Ascending(_)
Ascending(S) ==
    IF S = {} THEN << >>
    ELSE LET least == CHOOSE x \in S : \A y \in S : LessEq(x, y)
         IN  <<least>> \o Ascending(S \ {least})

\* The symbol byStrike holds for a strike and a side after the loop: that of
\* the last entry of the strike and the side (an entry whose side is not CALL
\* sets putSymbol), absent when there is none.
SymbolAtStrike(filtered, strike, isCall) ==
    LET I == {i \in 1..Len(filtered) :
                 /\ filtered[i].strikePrice = strike
                 /\ (filtered[i].side = "CALL") = isCall}
    IN  IF I = {} THEN Null
        ELSE filtered[CHOOSE i \in I : \A j \in I : j <= i].symbol

buildContractGrid(symbols, underlying, expiryDate) ==
    LET filtered ==
            SelectSeq(symbols,
                      LAMBDA s : /\ s.underlying = underlying
                                 /\ s.expiryDate = expiryDate)
        strikes ==
            Ascending({filtered[i].strikePrice : i \in 1..Len(filtered)})
    IN  [k \in 1..Len(strikes) |->
            [strike |-> strikes[k],
             callSymbol |-> SymbolAtStrike(filtered, strikes[k], TRUE),
             putSymbol |-> SymbolAtStrike(filtered, strikes[k], FALSE)]]

BETA == 6

\* symbol ? map.get(symbol) ?? fallback : fallback, of a possibly undefined map
GetOr(map, symbol, fallback) ==
    IF symbol = Null THEN fallback
    ELSE OrDefault(MapGet(map, symbol), fallback)

\* num, den and strikes after one iteration of the loop, from acc
SentimentStep(row, markBySymbol, index, oiBySymbol, acc) ==
    LET callPrice == GetOr(markBySymbol, row.callSymbol, Null)
        putPrice == GetOr(markBySymbol, row.putSymbol, Null)
        rel == Log(Over(row.strike, index))
        wDist == Exp(Times(Num(-BETA), Abs(rel)))
        coi == GetOr(oiBySymbol, row.callSymbol, Num(0))
        poi == GetOr(oiBySymbol, row.putSymbol, Num(0))
        oiW == Plus(Num(1), Log10(Plus(Plus(Num(1), coi), poi)))
        sum == Plus(OrDefault(callPrice, Num(0)), OrDefault(putPrice, Num(0)))
        cNorm == Over(OrDefault(callPrice, Num(0)), sum)
        pNorm == Over(OrDefault(putPrice, Num(0)), sum)
        local == Minus(cNorm, pNorm)
        w == Times(wDist, oiW)
    IN  IF callPrice = Null /\ putPrice = Null THEN acc
        ELSE IF LessEq(sum, Num(0)) THEN acc
        ELSE [num |-> Plus(acc.num, Times(local, w)),
              den |-> Plus(acc.den, w),
              strikes |-> acc.strikes + 1]

RECURSIVE SentimentLoop(_, _, _, _, _)
SentimentLoop(grid, markBySymbol, index, oiBySymbol, acc) ==
    IF grid = << >> THEN acc
    ELSE SentimentLoop(Tail(grid), markBySymbol, index, oiBySymbol,
                       SentimentStep(Head(grid), markBySymbol, index,
                                     oiBySymbol, acc))

\* den > 0 ? Math.max(-1, Math.min(1, num / den)) : 0
SentimentScore(acc) ==
    IF Less(Num(0), acc.den)
    THEN MathMax(Num(-1), MathMin(Num(1), Over(acc.num, acc.den)))
    ELSE Num(0)

\* index is the parameter indexPrice.
computeSentimentForExpiry(grid, markBySymbol, index, oiBySymbol) ==
    LET acc == SentimentLoop(grid, markBySymbol, index, oiBySymbol,
                             [num |-> Num(0), den |-> Num(0), strikes |-> 0])
    IN  [expiry |-> 0, score |-> SentimentScore(acc),
         strikesConsidered |-> acc.strikes]

preferIv(entry) ==
    IF entry = Null THEN Null
    ELSE IF entry.markIV # Null THEN entry.markIV
    ELSE IF entry.bidIV # Null /\ entry.askIV # Null
    THEN Over(Plus(entry.bidIV, entry.askIV), Num(2))
    ELSE IF entry.bidIV # Null THEN entry.bidIV
    ELSE IF entry.askIV # Null THEN entry.askIV
    ELSE Null

\* The callSymbol (isCall) or the putSymbol of a row
LegSymbol(row, isCall) == IF isCall THEN row.callSymbol ELSE row.putSymbol

\* me?.delta ?? null for the leg of a row, null when the row has no such leg
LegDelta(row, isCall, markEntriesBySymbol) ==
    LET me == GetOr(markEntriesBySymbol, LegSymbol(row, isCall), Null)
    IN  IF me = Null THEN Null ELSE me.delta

\* bestCall.sym (target 0.25) or bestPut.sym (target -0.25): the symbol of
\* the first row whose leg's delta is nearest to the target; null when no leg
\* has a delta.
BestLeg(grid, isCall, target, markEntriesBySymbol) ==
    LET known == {k \in 1..Len(grid) :
                     LegDelta(grid[k], isCall, markEntriesBySymbol) # Null}
        diff(k) == Abs(Minus(LegDelta(grid[k], isCall, markEntriesBySymbol),
                             target))
    IN  IF known = {} THEN Null
        ELSE LegSymbol(
                 grid[CHOOSE k \in known :
                          \A j \in known :
                              IF j < k THEN ~LessEq(diff(j), diff(k))
                              ELSE ~Less(diff(j), diff(k))],
                 isCall)

computeRR25ForExpiry(grid, markEntriesBySymbol) ==
    LET bestCall == BestLeg(grid, TRUE, Rat(1, 4), markEntriesBySymbol)
        bestPut == BestLeg(grid, FALSE, Rat(-1, 4), markEntriesBySymbol)
        callIv == IF bestCall # Null
                  THEN preferIv(MapGet(markEntriesBySymbol, bestCall))
                  ELSE Null
        putIv == IF bestPut # Null
                 THEN preferIv(MapGet(markEntriesBySymbol, bestPut))
                 ELSE Null
    IN  [rr25 |-> IF callIv # Null /\ putIv # Null
                  THEN Minus(callIv, putIv)
                  ELSE Null]

AGGREGATE_VERSION == 1

toMarkEntry(entry) ==
    [symbol |-> entry.symbol, markPrice |-> entry.markPrice,
     bidIV |-> entry.bidIV, askIV |-> entry.askIV, markIV |-> entry.markIV,
     delta |-> entry.delta, gamma |-> entry.gamma]

\* The entry a Map built from snapshot.symbols holds for a symbol: a later
\* entry of a symbol replaces an earlier one.
LastEntry(symbols, sym) ==
    symbols[CHOOSE i \in 1..Len(symbols) :
                /\ symbols[i].symbol = sym
                /\ \A j \in 1..Len(symbols) :
                       symbols[j].symbol = sym => j <= i]

\* new Map(snapshot.symbols.map((entry) => [entry.symbol, toMarkEntry(entry)]))
MarkMap(symbols) ==
    [sym \in {symbols[i].symbol : i \in 1..Len(symbols)} |->
        toMarkEntry(LastEntry(symbols, sym))]

\* new Map(snapshot.symbols.map((entry) => [entry.symbol, entry.markPrice]))
PriceMap(symbols) ==
    [sym \in {symbols[i].symbol : i \in 1..Len(symbols)} |->
        LastEntry(symbols, sym).markPrice]

\* The callback of snapshot.expiries.map
ExpiryAggregate(snapshot, expiry) ==
    LET grid == buildContractGrid(snapshot.symbols, snapshot.underlying,
                                  expiry)
        baseline ==
            computeSentimentForExpiry(grid, PriceMap(snapshot.symbols),
                                      snapshot.indexPrice, Null)
        rr == computeRR25ForExpiry(grid, MarkMap(snapshot.symbols))
    IN  IF Len(grid) = 0
        THEN [expiry |-> expiry, baseline |-> Null, rr25 |-> Null,
              price |-> snapshot.indexPrice, strikesConsidered |-> 0]
        ELSE [expiry |-> expiry, baseline |-> baseline.score,
              rr25 |-> rr.rr25, price |-> snapshot.indexPrice,
              strikesConsidered |-> baseline.strikesConsidered]

buildSnapshotAggregate(snapshot) ==
    [underlying |-> snapshot.underlying,
     createdAt |-> snapshot.createdAt,
     indexPrice |-> snapshot.indexPrice,
     expiries |-> [k \in 1..Len(snapshot.expiries) |->
                      ExpiryAggregate(snapshot, snapshot.expiries[k])],
     metadata |-> [version |-> AGGREGATE_VERSION,
                   sourceSnapshotId |-> snapshot.id]]

MaxSnapshotSymbols == 2

SnapshotExpiries == <<1, 2>>
SnapshotStrikes == {Num(90), Num(100)}
SnapshotMarkPrices == {Null, Num(1)}
Sides == {"CALL", "PUT"}

\* An entry of snapshot.symbols but for its symbol: its greeks are those of
\* its side.
SnapshotSymbolData ==
    {[underlying |-> "BTCUSDT", expiryDate |-> expiryDate,
      strikePrice |-> strikePrice, side |-> side, markPrice |-> markPrice,
      bidIV |-> Null, askIV |-> Null,
      markIV |-> IF side = "CALL" THEN Rat(3, 5) ELSE Rat(1, 2),
      delta |-> IF side = "CALL" THEN Rat(3, 10) ELSE Rat(-1, 5),
      gamma |-> Rat(1, 100)] :
        expiryDate \in {SnapshotExpiries[k] : k \in 1..Len(SnapshotExpiries)},
        strikePrice \in SnapshotStrikes, side \in Sides,
        markPrice \in SnapshotMarkPrices}

\* The lists of at most MaxSnapshotSymbols entries; the entry at position i
\* has a symbol of its own.
SnapshotSymbolLists ==
    UNION {{[i \in 1..n |-> [symbol |-> <<"S", i>>] @@ data[i]] :
               data \in [1..n -> SnapshotSymbolData]} :
           n \in 0..MaxSnapshotSymbols}

Snapshots ==
    [id : {"snapshot"}, underlying : {"BTCUSDT"}, createdAt : {0},
     indexPrice : {Num(100)}, expiries : {SnapshotExpiries},
     symbols : SnapshotSymbolLists]

InitSnapshotAggregate ==
    /\ pc = "idle"
    /\ NoServices
    /\ args \in Snapshots
    /\ now = 0
    /\ contracts = << >>
    /\ indexPrice = Null
    /\ openInterest = << >>
    /\ timeline = << >>
    /\ anchorTimestamp = 0
    /\ options = Null
    /\ result = Null
    /\ locals = Null

CallBuildSnapshotAggregate ==
    /\ pc = "idle"
    /\ pc' = "done"
    /\ result' = buildSnapshotAggregate(args)
    /\ UNCHANGED <<contracts, indexPrice, openInterest, timeline,
                   anchorTimestamp, options, args, now, locals, services>>

NextSnapshotAggregate == CallBuildSnapshotAggregate

SpecSnapshotAggregate ==
    InitSnapshotAggregate /\ [][NextSnapshotAggregate]_vars

\* The grid rows of an expiry: the strikes that have an entry of the expiry.
HasGridRows(expiry) ==
    \E i \in 1..Len(args.symbols) : args.symbols[i].expiryDate = expiry

\* C20: in every expiry entry, baseline is null or a number in [-1, 1], and
\* it is null whenever strikesConsidered is 0, also when the expiry has grid
\* rows.
C20_BaselineNullWithoutStrikes ==
    Called =>
        \A k \in 1..Len(result.expiries) :
            LET entry == result.expiries[k]
            IN  /\ \/ entry.baseline = Null
                   \/ /\ isFiniteNumber(entry.baseline)
                      /\ LessEq(Num(-1), entry.baseline)
                      /\ LessEq(entry.baseline, Num(1))
                /\ entry.strikesConsidered = 0 => entry.baseline = Null

----------------------------------------------------------------------------
(* requestJupiterOrder (src/app/_actions/jupiter.ts)                        *)
(*                                                                          *)
(* The strings the action takes apart (the amount, the slippage, the        *)
(* transaction) are sequences of one-character strings; the strings it only *)
(* compares or measures (mints, taker, keys) are strings.  An optional      *)
(* value is << >> when absent and <<value>> when present.                   *)

JUPITER_TOKENS ==
    <<[mint |-> "So11111111111111111111111111111111111111112",
       symbol |-> "wSOL", decimals |-> 9],
      [mint |-> "Es9vMFrzaCER21fdAyhKux97r7QLm5Qg1GKeo7GXhVWb",
       symbol |-> "USDT", decimals |-> 6],
      [mint |-> "EPjFWdd5AufqSSqeM2qN1xzybapC8G4wEGGkZwyTDt1v",
       symbol |-> "USDC", decimals |-> 6],
      [mint |-> "3NZ9JMVBmGAqocybic2c7LQCJScmgsAZ6vQqTDzcqmJh",
       symbol |-> "WBTC", decimals |-> 8]>>

\* JUPITER_TOKENS.find: << >> (undefined) or <<token>>, the first match.
getTokenConfig(mint) ==
    LET matches == {k \in 1..Len(JUPITER_TOKENS) : JUPITER_TOKENS[k].mint = mint}
    IN  IF matches = {} THEN << >>
        ELSE <<JUPITER_TOKENS[CHOOSE k \in matches : \A j \in matches : k <= j]>>

DigitCharacters == {"0", "1", "2", "3", "4", "5", "6", "7", "8", "9"}

RECURSIVE trimStart(_)
trimStart(value) ==
    IF value # << >> /\ Head(value) = " " THEN trimStart(Tail(value))
    ELSE value

RECURSIVE trimEnd(_)
trimEnd(value) ==
    IF value # << >> /\ value[Len(value)] = " "
    THEN trimEnd(SubSeq(value, 1, Len(value) - 1))
    ELSE value

trim(value) == trimEnd(trimStart(value))

\* /^\d+(?:\.\d+)?$/.test(value)
MatchesDecimalPattern(value) ==
    LET dots == {k \in 1..Len(value) : value[k] = "."}
    IN  /\ Len(value) >= 1
        /\ \A k \in 1..Len(value) : value[k] \in DigitCharacters \cup {"."}
        /\ Cardinality(dots) <= 1
        /\ \A k \in dots : 1 < k /\ k < Len(value)

\* value.split(".") for a value with at most one dot: <<whole, fraction>>,
\* the fraction "" when there is no dot.
SplitAtDot(value) ==
    LET dots == {k \in 1..Len(value) : value[k] = "."}
    IN  IF dots = {} THEN <<value, << >> >>
        ELSE LET dot == CHOOSE k \in dots : TRUE
             IN  <<SubSeq(value, 1, dot - 1), SubSeq(value, dot + 1, Len(value))>>

padEnd(value, length, fill) ==
    IF Len(value) >= length THEN value
    ELSE value \o [k \in 1..(length - Len(value)) |-> fill]

\* value.replace(/^0+(?=\d)/, "")
RECURSIVE StripLeadingZeros(_)
StripLeadingZeros(value) ==
    IF Len(value) >= 2 /\ value[1] = "0" /\ value[2] \in DigitCharacters
    THEN StripLeadingZeros(Tail(value))
    ELSE value

\* mapAmountToBaseUnits without the test of the fraction's length.
mapAmountToBaseUnits_AnyPrecision(value, decimals) ==
    LET trimmed == trim(value)
        parts == SplitAtDot(trimmed)
        fullNumber == StripLeadingZeros(parts[1] \o padEnd(parts[2], decimals, "0"))
    IN  IF trimmed = << >> THEN Null
        ELSE IF ~MatchesDecimalPattern(trimmed) THEN Null
        ELSE IF Len(fullNumber) # 0 THEN fullNumber ELSE <<"0">>

\* null (<< >>) or the amount in base units, a non-empty string of digits.
mapAmountToBaseUnits(value, decimals) ==
    LET trimmed == trim(value)
        parts == SplitAtDot(trimmed)
        fullNumber == StripLeadingZeros(parts[1] \o padEnd(parts[2], decimals, "0"))
    IN  IF trimmed = << >> THEN Null
        ELSE IF ~MatchesDecimalPattern(trimmed) THEN Null
        ELSE IF Len(parts[2]) > decimals THEN Null
        ELSE IF Len(fullNumber) # 0 THEN fullNumber ELSE <<"0">>

\* The value of a string of decimal digits.
RECURSIVE DigitsValue(_)
DigitsValue(value) ==
    IF value = << >> THEN 0
    ELSE 10 * DigitsValue(SubSeq(value, 1, Len(value) - 1))
           + (CHOOSE d \in 0..9 :
                  <<"0", "1", "2", "3", "4", "5", "6", "7", "8", "9">>[d + 1]
                      = value[Len(value)])

\* Number(value), z.coerce.number, for the strings of the model: blank is 0,
\* a string of digits is its value, any other string is NaN.
ToNumber(value) ==
    LET trimmed == trim(value)
    IN  IF \A k \in 1..Len(trimmed) : trimmed[k] \in DigitCharacters
        THEN Num(DigitsValue(trimmed))
        ELSE NaN

\* ORDER_SCHEMA.safeParse(raw).success
OrderSchemaAccepts(raw) ==
    /\ Len(raw.inputMint) >= 32 /\ Len(raw.inputMint) <= 64
    /\ Len(raw.outputMint) >= 32 /\ Len(raw.outputMint) <= 64
    /\ Len(raw.taker) >= 32 /\ Len(raw.taker) <= 64
    /\ Len(raw.amount) >= 1
    /\ raw.swapMode \in {"ExactIn", "ExactOut"}
    /\ \/ raw.slippageBps = << >>
       \/ LET coerced == ToNumber(raw.slippageBps[1])
          IN  /\ isFiniteNumber(coerced)
              /\ Le(Num(1), coerced)
              /\ Le(coerced, Num(10000))

\* parseResult.data.slippageBps: undefined or the coerced number.
ParsedSlippageBps(raw) ==
    IF raw.slippageBps = << >> THEN Null ELSE ToNumber(raw.slippageBps[1])

ErrorState(message) == [status |-> "error", message |-> message]

\* The steps before the request: << >> when all of them pass, else <<state>>,
\* the state returned.
ValidationError(raw, apiKey) ==
    IF ~OrderSchemaAccepts(raw)
    THEN <<ErrorState("Invalid form input. Check mint addresses, decimals, and amount.")>>
    ELSE IF getTokenConfig(raw.inputMint) = << >>
    THEN <<ErrorState("Unsupported input token mint. Update TOKEN_CONFIGS on the test page to include this mint.")>>
    ELSE IF getTokenConfig(raw.outputMint) = << >>
    THEN <<ErrorState("Unsupported output token mint. Update TOKEN_CONFIGS on the test page to include this mint.")>>
    ELSE LET decimals == getTokenConfig(raw.inputMint)[1].decimals
             amountInBaseUnits == mapAmountToBaseUnits(raw.amount, decimals)
         IN  IF amountInBaseUnits = Null
             THEN <<ErrorState("Amount must be a numeric value with up to "
                                \o ToString(decimals) \o " decimal places.")>>
             ELSE IF amountInBaseUnits = <<"0">>
             THEN <<ErrorState("Amount must be greater than zero.")>>
             ELSE IF apiKey = ""
             THEN <<ErrorState("JUPITER_API_KEY is not configured in the environment.")>>
             ELSE << >>

\* The request of a form that passed: the query parameters and the key header.
OrderRequest(raw, apiKey) ==
    LET decimals == getTokenConfig(raw.inputMint)[1].decimals
        slippageBps == ParsedSlippageBps(raw)
    IN  [url |-> "https://api.jup.ag/ultra/v1/order", method |-> "GET",
         inputMint |-> raw.inputMint, outputMint |-> raw.outputMint,
         amount |-> mapAmountToBaseUnits(raw.amount, decimals),
         taker |-> raw.taker, swapMode |-> raw.swapMode,
         slippageBps |-> IF Falsy(slippageBps) THEN Null ELSE slippageBps,
         apiKey |-> apiKey]

\* payload?.message ?? payload?.error ?? `Order request failed (${status}).`
FailureMessage(response) ==
    IF response.payload # << >> /\ response.payload[1].message # << >>
    THEN response.payload[1].message[1]
    ELSE IF response.payload # << >> /\ response.payload[1].error # << >>
    THEN response.payload[1].error[1]
    ELSE "Order request failed (" \o ToString(response.status) \o ")."

\* !data?.transaction || !data?.requestId
MissingTransactionPayload(data) ==
    \/ data = << >>
    \/ data[1].transaction = << >> \/ data[1].transaction[1] = << >>
    \/ data[1].requestId = << >> \/ data[1].requestId[1] = ""

RouteSummaryEntry(entry) ==
    [label |-> IF entry.marketMetaLabel # << >> THEN entry.marketMetaLabel[1]
               ELSE IF entry.marketLabel # << >> THEN entry.marketLabel[1]
               ELSE "Unknown",
     inputMint |-> IF entry.inputMint # << >> THEN entry.inputMint[1] ELSE "",
     outputMint |-> IF entry.outputMint # << >> THEN entry.outputMint[1] ELSE "",
     percent |-> IF entry.percent # << >> THEN entry.percent[1] ELSE Num(0)]

\* The state returned for a response with ok set whose body is `data`.
OrderSuccess(data, request) ==
    LET transactionBase64 == data.transaction[1]
        slippageBps == request.slippageBps
    IN  [status |-> "success",
         data |->
             [requestId |-> data.requestId[1],
              swapMode |-> request.swapMode,
              inAmount |-> IF data.inAmount # << >> THEN data.inAmount[1]
                           ELSE request.amount,
              outAmount |-> IF data.outAmount # << >> THEN data.outAmount[1]
                            ELSE Null,
              slippageBps |-> IF data.slippageBps # << >> THEN data.slippageBps[1]
                              ELSE slippageBps,
              expiryTimestamp |-> IF data.expiryTimestamp # << >>
                                  THEN data.expiryTimestamp[1] ELSE Null,
              routeSummary |->
                  IF data.routePlan # << >>
                  THEN [k \in 1..Len(data.routePlan[1]) |->
                            RouteSummaryEntry(data.routePlan[1][k])]
                  ELSE << >>,
              transactionLength |-> Len(transactionBase64),
              transactionPreview |->
                  SubSeq(transactionBase64, 1,
                         IF Len(transactionBase64) < 120
                         THEN Len(transactionBase64) ELSE 120)]]

\* The state returned once the fetch has settled with `response`.
requestJupiterOrder(response, request) ==
    IF response.kind = "rejected" \/ response.kind = "invalid json"
    THEN ErrorState("Failed to reach Jupiter Ultra API. Check network connectivity and API key permissions.")
    ELSE IF ~response.ok
    THEN ErrorState(FailureMessage(response))
    ELSE IF MissingTransactionPayload(response.data)
    THEN ErrorState("Unexpected response from Jupiter. Missing transaction payload.")
    ELSE OrderSuccess(response.data[1], request)

(* The forms and the responses *)

UNREGISTERED_MINT == "JUPyiwrYJFskUPiHa7hkeR8VUtAeFoSYbKedZNsDvCN"

InputMints ==
    {JUPITER_TOKENS[1].mint, JUPITER_TOKENS[2].mint, JUPITER_TOKENS[4].mint,
     UNREGISTERED_MINT, "So1111"}

OutputMints == {JUPITER_TOKENS[4].mint, UNREGISTERED_MINT, "WBTC"}

Takers == {"7xKXtg2CW87d97TXJSDpbD5jBkheTqA83TZRuJosgAsU", "taker"}

\* Amounts on each side of every test: empty, blank, not numeric, zero, six,
\* seven and ten fractional digits, leading zeros, surrounding blanks.
Amounts ==
    {<< >>, <<" ">>, <<"1">>, <<"0">>, <<"0", ".", "0">>, <<".", "5">>,
     <<"1", ".">>, <<"1", "x">>, <<"-", "1">>, <<" ", "1", "5", " ">>,
     <<"0", "0", "7">>, <<"1", ".", "2", ".", "3">>,
     <<"0", ".", "0", "0", "0", "0", "0", "1">>,
     <<"0", ".", "0", "0", "0", "0", "0", "0", "1">>,
     <<"2", ".", "0", "0", "0", "0", "0", "0", "0", "0", "0", "0">>}

SwapModes == {"ExactIn", "Market"}

SlippageInputs == {<< >>, << << >> >>, <<<<"5", "0">>>>, <<<<"a">>>>}

ApiKeys == {"", "jup-key"}

OrderForms ==
    [inputMint : InputMints, outputMint : OutputMints, taker : Takers,
     amount : Amounts, swapMode : SwapModes, slippageBps : SlippageInputs]

LONG_TRANSACTION == [k \in 1..121 |-> "A"]

OrderData ==
    [transaction : {<< >>, << << >> >>, <<LONG_TRANSACTION>>},
     requestId : {<< >>, <<"request-1">>},
     inAmount : {<< >>}, outAmount : {<< >>}, slippageBps : {<< >>},
     expiryTimestamp : {<< >>}, routePlan : {<< >>}]
    \cup
    [transaction : {<<<<"A", "Q", "=", "=">>>>},
     requestId : {<<"request-2">>},
     inAmount : {<<<<"7">>>>}, outAmount : {<<<<"9">>>>},
     slippageBps : {<<Num(25)>>}, expiryTimestamp : {<<1700000000>>},
     routePlan : {<<<<[marketMetaLabel |-> << >>, marketLabel |-> <<"Orca">>,
                       inputMint |-> << >>, outputMint |-> <<"WBTC">>,
                       percent |-> << >>]>>>>}]

OrderResponses ==
    {[kind |-> "rejected"], [kind |-> "invalid json"]}
    \cup [kind : {"response"}, ok : {FALSE}, status : {429},
          payload : {<< >>,
                     <<[message |-> <<"Too many requests">>, error |-> << >>]>>,
                     <<[message |-> << >>, error |-> <<"rate limited">>]>>}]
    \cup [kind : {"response"}, ok : {TRUE}, status : {200},
          data : {<< >>} \cup {<<data>> : data \in OrderData}]

InitJupiterOrder ==
    /\ pc = "idle"
    /\ args \in OrderForms
    /\ env \in [JUPITER_API_KEY : ApiKeys]
    /\ requests = << >>
    /\ result = [status |-> "idle"]
    /\ locals = Null
    /\ contracts = << >>
    /\ indexPrice = Null
    /\ openInterest = << >>
    /\ timeline = << >>
    /\ anchorTimestamp = 0
    /\ options = Null
    /\ now = 0
    /\ store = Null
    /\ openInterestCache = << >>

\* The action up to its first return: a validation failure.
ReturnValidationError ==
    /\ pc = "idle"
    /\ ValidationError(args, env.JUPITER_API_KEY) # << >>
    /\ pc' = "done"
    /\ result' = ValidationError(args, env.JUPITER_API_KEY)[1]
    /\ UNCHANGED <<contracts, indexPrice, openInterest, timeline,
                   anchorTimestamp, options, args, now, locals, services>>

\* The action up to `await fetch`: the request is sent.
SendOrderRequest ==
    /\ pc = "idle"
    /\ ValidationError(args, env.JUPITER_API_KEY) = << >>
    /\ pc' = "fetching"
    /\ requests' = Append(requests, OrderRequest(args, env.JUPITER_API_KEY))
    /\ UNCHANGED <<contracts, indexPrice, openInterest, timeline,
                   anchorTimestamp, options, args, now, result, locals, env,
                   store, openInterestCache>>

\* The fetch settles and the action returns; locals holds the response.
ReceiveOrderResponse ==
    /\ pc = "fetching"
    /\ \E response \in OrderResponses :
          /\ locals' = response
          /\ result' = requestJupiterOrder(response, requests[Len(requests)])
    /\ pc' = "done"
    /\ UNCHANGED <<contracts, indexPrice, openInterest, timeline,
                   anchorTimestamp, options, args, now, services>>

NextJupiterOrder ==
    \/ ReturnValidationError
    \/ SendOrderRequest
    \/ ReceiveOrderResponse

SpecJupiterOrder == InitJupiterOrder /\ [][NextJupiterOrder]_vars

\* The digits after the dot of an amount, none when it has no dot.
FractionDigits(amount) ==
    IF \E k \in 1..Len(amount) : amount[k] = "."
    THEN Len(amount) - (CHOOSE k \in 1..Len(amount) : amount[k] = ".")
    ELSE 0

\* The amount is written as digits, with at most one dot between digits.
NumericAmount(amount) == MatchesDecimalPattern(trim(amount))

ZeroAmount(amount) ==
    /\ NumericAmount(amount)
    /\ \A k \in 1..Len(amount) : amount[k] \in {"0", ".", " "}

Registered(mint) == \E k \in 1..Len(JUPITER_TOKENS) : JUPITER_TOKENS[k].mint = mint

\* One of the conditions that must stop the order before any request.
InvalidOrder ==
    \/ ~OrderSchemaAccepts(args)
    \/ ~Registered(args.inputMint)
    \/ ~Registered(args.outputMint)
    \/ ~NumericAmount(args.amount)
    \/ \E k \in 1..Len(JUPITER_TOKENS) :
          /\ JUPITER_TOKENS[k].mint = args.inputMint
          /\ FractionDigits(trim(args.amount)) > JUPITER_TOKENS[k].decimals
    \/ ZeroAmount(args.amount)
    \/ env.JUPITER_API_KEY = ""

\* C21: an order that fails the schema, names an unregistered mint, has an
\* amount that is not numeric, too precise or zero, or finds no API key, is
\* never sent and ends with status "error"; status "success" is returned
\* only for a response with ok set that carries transaction and requestId.
C21_ValidatedBeforeRequest ==
    /\ InvalidOrder => requests = << >>
    /\ (InvalidOrder /\ pc = "done") => result.status = "error"
    /\ result.status = "success" =>
          /\ pc = "done" /\ Len(requests) = 1
          /\ locals.kind = "response" /\ locals.ok
          /\ locals.data # << >>
          /\ locals.data[1].transaction \notin {<< >>, << << >> >>}
          /\ locals.data[1].requestId \notin {<< >>, <<"">>}

\* An amount with seven fractional digits for a token of six decimals, in a
\* form that passes every other test, was refused without a request.
C21_Witness ==
    /\ pc = "done"
    /\ args.inputMint = JUPITER_TOKENS[2].mint
    /\ args.outputMint = JUPITER_TOKENS[4].mint
    /\ OrderSchemaAccepts(args)
    /\ NumericAmount(args.amount)
    /\ FractionDigits(trim(args.amount)) = 7
    /\ env.JUPITER_API_KEY # ""
    /\ result.status = "error"
    /\ requests = << >>

----------------------------------------------------------------------------
(* The snapshot store (src/lib/repositories/option-snapshots.ts)            *)
(*                                                                          *)
(* store.option_snapshots and store.option_snapshot_aggregates are the two  *)
(* collections: a function from the id of a base document (an underlying)   *)
(* to [latestCreatedAt, entries], where latestCreatedAt is << >> or <<t>>   *)
(* and entries, the subcollection, is a function from createdAt to the data *)
(* of the entry.  store.reads counts the reads issued, store.writes the     *)
(* writes.  Times are integers (milliseconds).                              *)

EmptyDocument == [latestCreatedAt |-> << >>, entries |-> << >>]

DocumentAt(collection, id) ==
    IF id \in DOMAIN collection THEN collection[id] ELSE EmptyDocument

\* baseRef.collection("entries").doc(String(createdAt)).set({...data})
SetEntry(collection, id, createdAt, data) ==
    (id :> [DocumentAt(collection, id) EXCEPT
                !.entries = (createdAt :> data) @@ @])
        @@ collection

\* baseRef.set({latestCreatedAt: createdAt}, {merge: true})
SetLatestCreatedAt(collection, id, createdAt) ==
    (id :> [DocumentAt(collection, id) EXCEPT
                !.latestCreatedAt = <<createdAt>>])
        @@ collection

\* startAfter(cursor) taken one entry too far.
KeysAfter_PastCursor(entries, cursor) ==
    {t \in DOMAIN entries : cursor = << >> \/ t < cursor[1] - 1}

\* The keys of the entries a query returns: those after the cursor
\* (startAfter) in the descending order, all of them when there is none.
KeysAfter(entries, cursor) ==
    {t \in DOMAIN entries : cursor = << >> \/ t < cursor[1]}

\* orderBy("createdAt", "desc"): each key with its place in the descending
\* order, one more than the number of keys above it.
RankedKeys(keys) ==
    {<<Cardinality({s \in keys : s > t}) + 1, t>> : t \in keys}

\* limit(limit) of the ranked keys: the documents of the first `limit`
\* places, each mapped by mapSnapshotDoc, which adds its id.
QueryEntries(entries, ranked, limit) ==
    [k \in 1..(IF Cardinality(ranked) < limit THEN Cardinality(ranked)
               ELSE limit) |->
        CHOOSE doc \in {[id |-> ToString(place[2])] @@ entries[place[2]] :
                           place \in {p \in ranked : p[1] = k}} : TRUE]

\* null (<< >>) or <<aggregate>>.  When the entry does not exist the legacy
\* query looks for a root document with the fields underlying and
\* createdAt; the root documents hold latestCreatedAt only, so it matches
\* none (or fails, which is caught).
getSnapshotAggregateAt(collection, underlying, createdAt) ==
    LET entries == DocumentAt(collection, underlying).entries
    IN  IF createdAt \in DOMAIN entries
        THEN <<[id |-> ToString(createdAt)] @@ entries[createdAt]>>
        ELSE << >>

----------------------------------------------------------------------------
(* The backfill endpoint (src/app/api/cron/options/route.ts, lines 87-199)  *)
(* and runAggregateBackfill (src/unnamed/part_003).                         *)

LowerCaseOf ==
    [c \in {"B", "E", "A", "R", "T", "U", "F", "L", "S"} |->
        CASE c = "B" -> "b" [] c = "E" -> "e" [] c = "A" -> "a"
          [] c = "R" -> "r" [] c = "T" -> "t" [] c = "U" -> "u"
          [] c = "F" -> "f" [] c = "L" -> "l" [] c = "S" -> "s"]

\* value.toLowerCase() of a sequence of characters.
toLowerCase(value) ==
    [k \in 1..Len(value) |->
        IF value[k] \in DOMAIN LowerCaseOf THEN LowerCaseOf[value[k]]
        ELSE value[k]]

\* value.toUpperCase() of an underlying, for the underlyings of the model.
toUpperCase(value) ==
    CASE value = "btcusdt" -> "BTCUSDT"
      [] value = "ethusdt" -> "ETHUSDT"
      [] OTHER -> value

\* A value of a JSON body or of the query string is << >> (undefined) or
\* <<type, value>> with type the result of typeof: "boolean", "number" (an
\* integer) or "string" (a sequence of characters).

\* << >> (undefined) or <<boolean>>.
parseBoolean(value) ==
    IF value = << >> THEN << >>
    ELSE IF value[1] = "boolean" THEN <<value[2]>>
    ELSE IF value[1] = "string"
            /\ toLowerCase(value[2]) = <<"t", "r", "u", "e">> THEN <<TRUE>>
    ELSE IF value[1] = "string"
            /\ toLowerCase(value[2]) = <<"f", "a", "l", "s", "e">> THEN <<FALSE>>
    ELSE << >>

\* Number(value) of a string of the model: digits, with a sign or without.
SignedNumber(value) ==
    LET trimmed == trim(value)
    IN  IF trimmed # << >> /\ Head(trimmed) = "-" /\ Len(trimmed) > 1
           /\ \A k \in 2..Len(trimmed) : trimmed[k] \in DigitCharacters
        THEN Num(-DigitsValue(Tail(trimmed)))
        ELSE IF \A k \in 1..Len(trimmed) : trimmed[k] \in DigitCharacters
        THEN Num(DigitsValue(trimmed))
        ELSE NaN

\* << >> (undefined) or <<number>>, an integer.
parseNumber(value) ==
    IF value = << >> THEN << >>
    ELSE IF value[1] = "number" THEN <<value[2]>>
    ELSE IF value[1] = "string" /\ trim(value[2]) # << >>
            /\ isFiniteNumber(SignedNumber(value[2]))
    THEN <<SignedNumber(value[2])[1]>>
    ELSE << >>

\* A ?? B
Coalesce(first, second) == IF first # << >> THEN first ELSE second

coerceOptions(input) ==
    [underlying |-> IF input.underlying # << >> /\ input.underlying[1] # ""
                    THEN <<toUpperCase(input.underlying[1])>> ELSE << >>,
     limit |-> input.limit, force |-> input.force, dryRun |-> input.dryRun]

\* query.has(name) ? parse(query.get(name)) : undefined is parse(query[name])
\* with << >> for a parameter that is absent.
mergeOptionSources(body, query) ==
    coerceOptions(
        [underlying |-> Coalesce(body.underlying, query.underlying),
         limit |-> Coalesce(parseNumber(body.limit), parseNumber(query.limit)),
         force |-> Coalesce(parseBoolean(body.force), parseBoolean(query.force)),
         dryRun |-> Coalesce(parseBoolean(body.dryRun),
                             parseBoolean(query.dryRun))])

\* authHeader?.toLowerCase().startsWith("bearer ") ? authHeader.slice(7).trim()
\* : undefined
BearerToken(authHeader) ==
    IF /\ authHeader # << >>
       /\ Len(authHeader[1]) >= 7
       /\ SubSeq(toLowerCase(authHeader[1]), 1, 7)
              = <<"b", "e", "a", "r", "e", "r", " ">>
    THEN <<trim(SubSeq(authHeader[1], 8, Len(authHeader[1])))>>
    ELSE << >>

\* authorizeRequest with the check on the token left out.
authorizeRequest_Open(request, requiredToken) == TRUE

\* TRUE when authorizeRequest returns, FALSE when it throws "Unauthorized".
\* An environment variable that is not set is the empty string.
authorizeRequest(request, requiredToken) ==
    \/ requiredToken = << >>
    \/ BearerToken(request.authorization) = <<requiredToken>>
    \/ request.token = <<requiredToken>>

batchSize == 200

\* The locals of POST, runAggregateBackfill and backfillUnderlying: target
\* is the position in targets of the underlying being processed, docs is
\* snap.docs and position the place of the for loop in it; logs holds the
\* messages pushed by the logger, each the tuple of its words and values.
BackfillLocals(backfillOptions, targets) ==
    [options |-> backfillOptions, targets |-> targets, target |-> 0,
     processed |-> 0, created |-> 0, skipped |-> 0,
     cursor |-> << >>, remaining |-> PosInf,
     docs |-> << >>, position |-> 0, aggregate |-> << >>,
     results |-> << >>, logs |-> << >>]

\* emit(logger, message)
emit(l, message) == [l EXCEPT !.logs = Append(@, message)]

\* The message of processSnapshot about the document the for loop is at.
SnapshotMessage(l, words) ==
    <<words, l.targets[l.target], l.docs[l.position].createdAt>>

Truthy(flag) == flag = <<TRUE>>

\* A run that takes no notice of options.dryRun.
DryRun_Ignored(backfillOptions) == FALSE

\* if (options.dryRun)
DryRun(backfillOptions) == Truthy(backfillOptions.dryRun)

\* The ids of the model's base documents, in the order of listDocuments.
UNDERLYINGS == <<"BTCUSDT", "ETHUSDT">>

\* The for loop without `remaining -= 1`.
AfterOutcome_NoCountdown(l, outcome) ==
    LET last == l.position = Len(l.docs) \/ ~Lt(Num(0), l.remaining)
    IN  [l EXCEPT
            !.processed = @ + 1,
            !.created = IF outcome = "created" THEN @ + 1 ELSE @,
            !.skipped = IF outcome = "skipped" THEN @ + 1 ELSE @,
            !.aggregate = << >>,
            !.position = IF last THEN 0 ELSE @ + 1,
            !.cursor = IF last THEN <<l.docs[Len(l.docs)].createdAt>> ELSE @,
            !.docs = IF last THEN << >> ELSE @]

\* The for loop after processSnapshot returned `outcome`: the counters, then
\* the break or the next document; when the loop ends the cursor becomes
\* the last document of the batch.
AfterOutcome(l, outcome) ==
    LET remaining == IF l.remaining = PosInf THEN PosInf
                     ELSE Num(l.remaining[1] - 1)
        last == l.position = Len(l.docs) \/ ~Lt(Num(0), remaining)
    IN  [l EXCEPT
            !.processed = @ + 1,
            !.created = IF outcome = "created" THEN @ + 1 ELSE @,
            !.skipped = IF outcome = "skipped" THEN @ + 1 ELSE @,
            !.remaining = remaining,
            !.aggregate = << >>,
            !.position = IF last THEN 0 ELSE @ + 1,
            !.cursor = IF last THEN <<l.docs[Len(l.docs)].createdAt>> ELSE @,
            !.docs = IF last THEN << >> ELSE @]

PcAfterOutcome(l) == IF l.position = 0 THEN "while" ELSE "for"

\* processSnapshot without the test of an existing aggregate.
SkipsExisting_Never(existing) == FALSE

\* if (existing) return "skipped"
SkipsExisting(existing) == existing # << >>

Unchanged == <<contracts, indexPrice, openInterest, timeline, anchorTimestamp,
               options, now, requests, openInterestCache>>

\* POST, refused: authorizeRequest throws and the catch answers 401.
PostUnauthorized ==
    /\ pc = "idle"
    /\ args.method = "POST"
    /\ ~authorizeRequest(args, env.BACKFILL_ENDPOINT_TOKEN)
    /\ pc' = "done"
    /\ result' = [status |-> 401, ok |-> FALSE, error |-> "Unauthorized"]
    /\ UNCHANGED <<Unchanged, args, env, store, locals>>

\* GET on the endpoint.
GetBackfillEndpoint ==
    /\ pc = "idle"
    /\ args.method = "GET"
    /\ pc' = "done"
    /\ result' = [status |-> 405, ok |-> FALSE,
                  error |-> "Use POST with JSON payload to run the aggregate backfill."]
    /\ UNCHANGED <<Unchanged, args, env, store, locals>>

\* POST, authorized: the options are merged and runAggregateBackfill starts,
\* with its target when options.underlying is set.
PostAuthorized ==
    /\ pc = "idle"
    /\ args.method = "POST"
    /\ authorizeRequest(args, env.BACKFILL_ENDPOINT_TOKEN)
    /\ LET merged == mergeOptionSources(args.body, args.query)
       IN  IF merged.underlying # << >>
           THEN /\ locals' = BackfillLocals(merged,
                                            <<toUpperCase(merged.underlying[1])>>)
                /\ pc' = "targets"
           ELSE /\ locals' = BackfillLocals(merged, << >>)
                /\ pc' = "listDocuments"
    /\ UNCHANGED <<Unchanged, args, env, store, result>>

\* db.collection("option_snapshots").listDocuments(): every document that
\* exists or has a subcollection, by id.
ListDocuments ==
    /\ pc = "listDocuments"
    /\ locals' = [locals EXCEPT
                     !.targets =
                         SelectSeq(UNDERLYINGS,
                                   LAMBDA id : id \in DOMAIN store.option_snapshots)]
    /\ store' = [store EXCEPT !.reads = @ + 1]
    /\ pc' = "targets"
    /\ UNCHANGED <<Unchanged, args, env, result>>

\* The next turn of `for (const underlying of targets)`: backfillUnderlying
\* up to its while loop.
StartUnderlying ==
    /\ pc = "targets"
    /\ locals.target < Len(locals.targets)
    /\ locals' = [locals EXCEPT
                     !.target = @ + 1,
                     !.processed = 0, !.created = 0, !.skipped = 0,
                     !.cursor = << >>,
                     !.remaining = IF locals.options.limit # << >>
                                   THEN Num(locals.options.limit[1])
                                   ELSE PosInf,
                     !.docs = << >>, !.position = 0,
                     !.logs = Append(@, <<"Processing",
                                          locals.targets[locals.target + 1]>>)]
    /\ pc' = "while"
    /\ UNCHANGED <<Unchanged, args, env, store, result>>

\* while (remaining > 0): the query of the next batch; an empty batch
\* breaks out of the loop.
QueryBatch ==
    /\ pc = "while"
    /\ Lt(Num(0), locals.remaining)
    /\ \E entries \in {DocumentAt(store.option_snapshots,
                                   locals.targets[locals.target]).entries} :
       \E keys \in {KeysAfter(entries, locals.cursor)} :
       \E limit \in {Min(Num(batchSize), locals.remaining)[1]} :
       \E ranked \in {RankedKeys(keys)} :
       \E docs \in {QueryEntries(entries, ranked, limit)} :
           IF docs = << >>
           THEN /\ pc' = "return"
                /\ UNCHANGED locals
           ELSE /\ pc' = "for"
                /\ locals' = [locals EXCEPT !.docs = docs, !.position = 1]
    /\ store' = [store EXCEPT !.reads = @ + 1]
    /\ UNCHANGED <<Unchanged, args, env, result>>

\* processSnapshot without force: the existing aggregate is read; when there
\* is one the snapshot is skipped.
GetExistingAggregate ==
    /\ pc = "for"
    /\ ~Truthy(locals.options.force)
    /\ LET underlying == locals.targets[locals.target]
           snapshotDoc == locals.docs[locals.position]
           existing == getSnapshotAggregateAt(store.option_snapshot_aggregates,
                                              underlying, snapshotDoc.createdAt)
       IN  IF SkipsExisting(existing)
           THEN /\ locals' = AfterOutcome(
                                 emit(locals, SnapshotMessage(locals, "Skipping")),
                                 "skipped")
                /\ pc' = PcAfterOutcome(locals')
           ELSE /\ pc' = "build"
                /\ UNCHANGED locals
    /\ store' = [store EXCEPT !.reads = @ + 1]
    /\ UNCHANGED <<Unchanged, args, env, result>>

\* processSnapshot after the test of force and of the existing aggregate:
\* the aggregate is built and, unless the run is dry, handed to
\* saveSnapshotAggregate.
BuildBackfillAggregate ==
    /\ \/ pc = "build"
       \/ pc = "for" /\ Truthy(locals.options.force)
    /\ \E aggregate \in {buildSnapshotAggregate(locals.docs[locals.position])} :
           IF DryRun(locals.options)
           THEN /\ locals' = AfterOutcome(
                                 emit(locals,
                                      SnapshotMessage(locals, "Would upsert")),
                                 "created")
                /\ pc' = PcAfterOutcome(locals')
           ELSE /\ locals' = [locals EXCEPT !.aggregate = <<aggregate>>]
                /\ pc' = "setEntry"
    /\ UNCHANGED <<Unchanged, args, env, store, result>>

\* saveSnapshotAggregate: await entryRef.set({...aggregate})
SetAggregateEntry ==
    /\ pc = "setEntry"
    /\ store' = [store EXCEPT
                    !.option_snapshot_aggregates =
                        SetEntry(@, locals.targets[locals.target],
                                 locals.aggregate[1].createdAt,
                                 locals.aggregate[1]),
                    !.writes = @ + 1]
    /\ pc' = "setLatest"
    /\ UNCHANGED <<Unchanged, args, env, locals, result>>

\* saveSnapshotAggregate: await baseRef.set({latestCreatedAt}, {merge: true});
\* processSnapshot then returns "created".
SetAggregateLatest ==
    /\ pc = "setLatest"
    /\ store' = [store EXCEPT
                    !.option_snapshot_aggregates =
                        SetLatestCreatedAt(@, locals.targets[locals.target],
                                           locals.aggregate[1].createdAt),
                    !.writes = @ + 1]
    /\ locals' = AfterOutcome(emit(locals, SnapshotMessage(locals, "Wrote")),
                               "created")
    /\ pc' = PcAfterOutcome(locals')
    /\ UNCHANGED <<Unchanged, args, env, result>>

\* The while loop ends, by its test or by the break on an empty batch:
\* backfillUnderlying returns and its result is pushed.
ReturnUnderlying ==
    /\ \/ pc = "return"
       \/ pc = "while" /\ ~Lt(Num(0), locals.remaining)
    /\ locals' = [locals EXCEPT
                     !.results =
                         Append(@, [underlying |-> locals.targets[locals.target],
                                    processed |-> locals.processed,
                                    created |-> locals.created,
                                    skipped |-> locals.skipped]),
                     !.logs = Append(@, <<"Completed",
                                          locals.targets[locals.target],
                                          locals.processed, locals.created,
                                          locals.skipped>>)]
    /\ pc' = "targets"
    /\ UNCHANGED <<Unchanged, args, env, store, result>>

\* runAggregateBackfill returns and POST answers with the results.
RespondBackfill ==
    /\ pc = "targets"
    /\ locals.target = Len(locals.targets)
    /\ pc' = "done"
    /\ result' = [status |-> 200, ok |-> TRUE, options |-> locals.options,
                  results |-> locals.results,
                  logs |-> Append(locals.logs, <<"Backfill complete">>)]
    /\ UNCHANGED <<Unchanged, args, env, store, locals>>

NextBackfill ==
    \/ PostUnauthorized
    \/ GetBackfillEndpoint
    \/ PostAuthorized
    \/ ListDocuments
    \/ StartUnderlying
    \/ QueryBatch
    \/ GetExistingAggregate
    \/ BuildBackfillAggregate
    \/ SetAggregateEntry
    \/ SetAggregateLatest
    \/ ReturnUnderlying
    \/ RespondBackfill

----------------------------------------------------------------------------
(* The requests and the stores of the backfill                              *)

MaxStoredSnapshots == 3
LargeCollection == 201

SECRET == <<"s", "3">>

\* The data of a snapshot entry, as the cron capture writes it.
SnapshotData(underlying, createdAt) ==
    [underlying |-> underlying, createdAt |-> createdAt,
     indexPrice |-> Num(100), expiries |-> <<1>>, symbols |-> << >>]

\* The aggregate buildSnapshotAggregate makes of that snapshot, which has one
\* expiry and no symbols.
AggregateData(underlying, createdAt) ==
    [underlying |-> underlying, createdAt |-> createdAt,
     indexPrice |-> Num(100),
     expiries |-> <<[expiry |-> 1, baseline |-> Null, rr25 |-> Null,
                     price |-> Num(100), strikesConsidered |-> 0]>>,
     metadata |-> [version |-> AGGREGATE_VERSION,
                   sourceSnapshotId |-> ToString(createdAt)]]

\* A base document with `entries`, its pointer at the latest of them.
BaseDocument(entries) ==
    [latestCreatedAt |->
         <<CHOOSE t \in DOMAIN entries : \A s \in DOMAIN entries : s <= t>>,
     entries |-> entries]

\* The store after captures at the times snapshots[underlying], of which
\* those at aggregates[underlying] have their aggregate; an underlying
\* without entries has no base document.
StoreOf(snapshots, aggregates) ==
    [option_snapshots |->
         [id \in {u \in DOMAIN snapshots : snapshots[u] # {}} |->
             BaseDocument([t \in snapshots[id] |-> SnapshotData(id, t)])],
     option_snapshot_aggregates |->
         [id \in {u \in DOMAIN aggregates : aggregates[u] # {}} |->
             BaseDocument([t \in aggregates[id] |-> AggregateData(id, t)])],
     reads |-> 0, writes |-> 0]

SmallStores ==
    UNION {{StoreOf("BTCUSDT" :> 1..n @@ "ETHUSDT" :> {7},
                    "BTCUSDT" :> aggregated @@ "ETHUSDT" :> {}) :
               aggregated \in SUBSET (1..n)} :
           n \in 0..MaxStoredSnapshots}

LargeStores ==
    {StoreOf("BTCUSDT" :> 1..LargeCollection @@ "ETHUSDT" :> {},
             "BTCUSDT" :> {} @@ "ETHUSDT" :> {})}

EmptyQuery ==
    [underlying |-> << >>, limit |-> << >>, force |-> << >>, dryRun |-> << >>]

BackfillBodies ==
    [underlying : {<< >>, <<"btcusdt">>},
     limit : {<< >>} \cup {<<"number", n>> : n \in -1..2},
     force : {<< >>, <<"boolean", TRUE>>},
     dryRun : {<< >>, <<"boolean", TRUE>>}]

BackfillQueries ==
    {EmptyQuery,
     [underlying |-> <<"ETHUSDT">>, limit |-> <<"string", <<"1">>>>,
      force |-> <<"string", <<"T", "R", "U", "E">>>>,
      dryRun |-> <<"string", <<"f", "a", "l", "s", "e">>>>],
     [underlying |-> << >>, limit |-> <<"string", <<"-", "1">>>>,
      force |-> <<"string", <<"1">>>>,
      dryRun |-> <<"string", <<"t", "r", "u", "e">>>>]}

AuthorizationHeaders ==
    {<< >>,
     <<<<"B", "e", "a", "r", "e", "r", " ", "s", "3">>>>,
     <<<<"b", "e", "a", "r", "e", "r", " ", " ", "s", "3", " ">>>>,
     <<<<"B", "e", "a", "r", "e", "r", " ", "s", "4">>>>,
     <<<<"B", "a", "s", "i", "c", " ", "s", "3">>>>,
     <<SECRET>>}

QueryTokens == {<< >>, <<SECRET>>, <<<<"s">>>>}

\* Requests of every kind of credentials, for one body and one store.
EndpointRequests ==
    [method : {"GET", "POST"}, authorization : AuthorizationHeaders,
     token : QueryTokens,
     body : {[EmptyQuery EXCEPT !.limit = <<"number", 1>>]},
     query : {EmptyQuery}]

\* Authorized requests of every kind of options.
BackfillRequests ==
    [method : {"POST"}, authorization : {<< >>}, token : {<<SECRET>>},
     body : BackfillBodies, query : BackfillQueries]

\* Authorized requests on a collection of more than one batch.
LargeRequests ==
    [method : {"POST"}, authorization : {<< >>}, token : {<<SECRET>>},
     body : {EmptyQuery,
             [EmptyQuery EXCEPT !.limit = <<"number", LargeCollection - 1>>],
             [EmptyQuery EXCEPT !.dryRun = <<"boolean", TRUE>>]},
     query : {EmptyQuery}]

InitBackfill ==
    /\ pc = "idle"
    /\ \/ /\ args \in EndpointRequests
          /\ env \in [BACKFILL_ENDPOINT_TOKEN : {<< >>, SECRET}]
          /\ store = StoreOf("BTCUSDT" :> {1, 2} @@ "ETHUSDT" :> {},
                             "BTCUSDT" :> {} @@ "ETHUSDT" :> {})
       \/ /\ args \in BackfillRequests
          /\ env = [BACKFILL_ENDPOINT_TOKEN |-> SECRET]
          /\ store \in SmallStores
       \/ /\ args \in LargeRequests
          /\ env = [BACKFILL_ENDPOINT_TOKEN |-> SECRET]
          /\ store \in LargeStores
    /\ requests = << >>
    /\ result = Null
    /\ locals = Null
    /\ contracts = << >>
    /\ indexPrice = Null
    /\ openInterest = << >>
    /\ timeline = << >>
    /\ anchorTimestamp = 0
    /\ options = Null
    /\ now = 0
    /\ openInterestCache = << >>

SpecBackfill == InitBackfill /\ [][NextBackfill]_vars

\* Every step that can be taken is taken in the end: the awaited store
\* operations complete.
SpecBackfillFair == SpecBackfill /\ WF_vars(NextBackfill)


----------------------------------------------------------------------------
(* Claims about the snapshot store and the backfill                         *)

\* The greatest createdAt among the entries of a base document.
GreatestCreatedAt(document) ==
    CHOOSE t \in DOMAIN document.entries :
        \A s \in DOMAIN document.entries : s <= t

\* No call of saveSnapshotAggregate is between its two writes.
SavesCompleted == pc # "setLatest"

\* C22: after any sequence of completed saves for one underlying (those of
\* the backfill included), the base document's latestCreatedAt equals the
\* greatest createdAt among that underlying's stored entries.
C22_LatestIsGreatest ==
    SavesCompleted =>
        \A id \in DOMAIN store.option_snapshot_aggregates :
            LET document == store.option_snapshot_aggregates[id]
            IN  DOMAIN document.entries # {} =>
                    document.latestCreatedAt = <<GreatestCreatedAt(document)>>


\* The for loop of a run without force is at a snapshot whose createdAt has
\* an aggregate entry.
AtAggregatedSnapshot ==
    /\ pc = "for"
    /\ ~Truthy(locals.options.force)
    /\ locals.docs[locals.position].createdAt \in
           DOMAIN DocumentAt(store.option_snapshot_aggregates,
                             locals.targets[locals.target]).entries

\* Every aggregate entry stored before the step is the same after it.
EntriesKept ==
    \A id \in DOMAIN store.option_snapshot_aggregates :
        \A t \in DOMAIN store.option_snapshot_aggregates[id].entries :
            /\ id \in DOMAIN store'.option_snapshot_aggregates
            /\ t \in DOMAIN store'.option_snapshot_aggregates[id].entries
            /\ store'.option_snapshot_aggregates[id].entries[t]
                   = store.option_snapshot_aggregates[id].entries[t]

\* C23: in a run without force, processSnapshot returns "skipped" for every
\* snapshot whose createdAt already has an aggregate entry when it is
\* processed, with no write to the store, and no step of the run changes an
\* aggregate entry that is stored.
C23_NoForceNeverOverwrites ==
    [][/\ AtAggregatedSnapshot =>
              /\ locals'.skipped = locals.skipped + 1
              /\ locals'.created = locals.created
              /\ locals'.logs = Append(locals.logs,
                                       SnapshotMessage(locals, "Skipping"))
              /\ store'.option_snapshot_aggregates
                     = store.option_snapshot_aggregates
              /\ store'.writes = store.writes
       /\ (pc # "idle" /\ ~Truthy(locals.options.force)) => EntriesKept]_vars

\* A run without force that skipped a snapshot and wrote an aggregate.
C23_Witness ==
    /\ pc = "done"
    /\ result.status = 200
    /\ ~Truthy(result.options.force)
    /\ \E k \in 1..Len(result.results) :
           result.results[k].skipped > 0 /\ result.results[k].created > 0
    /\ store.writes > 0


\* processSnapshot of a dry run is past its test of force and of the
\* existing aggregate: the snapshot is not skipped.
AtSnapshotToWrite ==
    /\ pc \in {"build", "for"}
    /\ locals.options.dryRun = <<TRUE>>
    /\ pc = "for" => Truthy(locals.options.force)

\* C24: a run with dryRun set performs no write: no step of it changes the
\* aggregate collection (entries and latestCreatedAt pointers) or counts a
\* write, whatever the underlying, limit and force; and each aggregate it
\* would have written is reported as created.
C24_DryRunWritesNothing ==
    [][/\ (pc # "idle" /\ locals.options.dryRun = <<TRUE>>) =>
              /\ store'.option_snapshot_aggregates
                     = store.option_snapshot_aggregates
              /\ store'.option_snapshots = store.option_snapshots
              /\ store'.writes = 0
       /\ AtSnapshotToWrite =>
              /\ locals'.created = locals.created + 1
              /\ locals'.skipped = locals.skipped
              /\ locals'.logs = Append(locals.logs,
                                       SnapshotMessage(locals, "Would upsert"))]_vars

\* A dry run, forced and with a limit, that reported aggregates as created
\* and wrote none.
C24_Witness ==
    /\ pc = "done"
    /\ result.status = 200
    /\ result.options.dryRun = <<TRUE>>
    /\ result.options.force = <<TRUE>>
    /\ result.options.limit = <<2>>
    /\ \E k \in 1..Len(result.results) : result.results[k].created = 2
    /\ store.writes = 0


\* A run of runAggregateBackfill has started.
InRun == pc \notin {"idle", "done"} \/ (pc = "done" /\ result.status = 200)

\* The messages of processSnapshot among `logs`, in order.
SnapshotMessages(logs) == SelectSeq(logs, LAMBDA message : Len(message) = 3)

\* The counters add up and stay within the limit.
WithinLimit(counters, limit) ==
    /\ counters.processed = counters.created + counters.skipped
    /\ limit # << >> =>
           counters.processed <= (IF limit[1] > 0 THEN limit[1] ELSE 0)

\* C25: for every underlying the result of backfillUnderlying has
\* processed = created + skipped and processed at most the limit (0 when the
\* limit is zero or negative), processed is the number of snapshots handed
\* to processSnapshot, and no snapshot entry is processed more than once in
\* a run.
C25_ProcessedCounts ==
    InRun =>
        LET processedSnapshots == SnapshotMessages(locals.logs)
        IN  /\ WithinLimit(locals, locals.options.limit)
            /\ \A k \in 1..Len(locals.results) :
                   /\ WithinLimit(locals.results[k], locals.options.limit)
                   /\ locals.results[k].processed =
                          Len(SelectSeq(processedSnapshots,
                                        LAMBDA message :
                                            message[2] =
                                                locals.results[k].underlying))
            /\ Cardinality({<<processedSnapshots[k][2], processedSnapshots[k][3]>> :
                               k \in 1..Len(processedSnapshots)})
                   = Len(processedSnapshots)

\* A run whose limit stopped it before the end of a collection: of three
\* snapshots it processed two, one skipped and one created.
C25_Witness ==
    /\ pc = "done"
    /\ result.status = 200
    /\ result.options.limit = <<2>>
    /\ Cardinality(DOMAIN DocumentAt(store.option_snapshots,
                                     "BTCUSDT").entries) = 3
    /\ \E k \in 1..Len(result.results) :
           /\ result.results[k].underlying = "BTCUSDT"
           /\ result.results[k].processed = 2
           /\ result.results[k].skipped = 1
           /\ result.results[k].created = 1


\* A run with no limit and no dryRun.
CompleteRun ==
    /\ InRun
    /\ locals.options.limit = << >>
    /\ locals.options.dryRun # <<TRUE>>

\* The snapshots of each underlying are visited from the latest createdAt to
\* the earliest.
VisitedDescending ==
    LET visited == SnapshotMessages(locals.logs)
    IN  \A k \in 1..(Len(visited) - 1) :
            visited[k][2] = visited[k + 1][2] => visited[k][3] > visited[k + 1][3]

\* Every snapshot entry of every target has an aggregate entry of its
\* createdAt.
AllAggregated ==
    \A k \in 1..Len(locals.targets) :
        DOMAIN DocumentAt(store.option_snapshots, locals.targets[k]).entries
            \subseteq
                DOMAIN DocumentAt(store.option_snapshot_aggregates,
                                  locals.targets[k]).entries

\* C26: with no limit and no dryRun, and the store operations succeeding,
\* the backfill terminates for every finite snapshot collection (one of more
\* than a batch of 200 entries included), visits the entries in descending
\* createdAt order, and afterwards every snapshot entry that existed when
\* the run started has an aggregate entry with the same createdAt.
C26_CompleteRunTerminates ==
    /\ [](CompleteRun => VisitedDescending)
    /\ []((CompleteRun /\ pc = "done") => AllAggregated)
    /\ (pc = "targets" /\ CompleteRun) ~> (pc = "done")

\* A complete run over a collection of more than one batch has ended: it
\* processed every entry and every entry has its aggregate.
C26_Witness ==
    /\ pc = "done"
    /\ result.status = 200
    /\ result.options.limit = << >>
    /\ result.options.dryRun = << >>
    /\ Len(result.results) = 1
    /\ result.results[1].processed > batchSize
    /\ result.results[1].processed
           = Cardinality(DOMAIN store.option_snapshots["BTCUSDT"].entries)
    /\ DOMAIN store.option_snapshot_aggregates["BTCUSDT"].entries
           = DOMAIN store.option_snapshots["BTCUSDT"].entries
    /\ store.reads > 3 + batchSize


\* The request's Authorization bearer token or its `token` query parameter
\* is the configured token.
PresentsToken ==
    \/ BearerToken(args.authorization) = <<env.BACKFILL_ENDPOINT_TOKEN>>
    \/ args.token = <<env.BACKFILL_ENDPOINT_TOKEN>>

\* C29: when BACKFILL_ENDPOINT_TOKEN is configured, POST runs
\* runAggregateBackfill only for a request whose Authorization bearer token
\* or `token` query parameter equals the configured token; every other
\* request is answered 401 and causes no read and no write of the store; GET
\* never runs the backfill.
C29_OnlyWithToken ==
    env.BACKFILL_ENDPOINT_TOKEN # << >> =>
        /\ InRun => (args.method = "POST" /\ PresentsToken)
        /\ ~(args.method = "POST" /\ PresentsToken) =>
               /\ store.reads = 0
               /\ store.writes = 0
               /\ pc \in {"idle", "done"}
        /\ (pc = "done" /\ args.method = "POST" /\ ~PresentsToken) =>
               (result.status = 401 /\ ~result.ok)
        /\ (pc = "done" /\ args.method = "GET") => result.status = 405

\* A POST with the bearer token of another secret was answered 401 with the
\* store untouched.
C29_Witness ==
    /\ pc = "done"
    /\ args.method = "POST"
    /\ env.BACKFILL_ENDPOINT_TOKEN = SECRET
    /\ BearerToken(args.authorization) = <<(<<"s", "4">>)>>
    /\ args.token = <<(<<"s">>)>>
    /\ result.status = 401
    /\ store.reads = 0
    /\ store.writes = 0


----------------------------------------------------------------------------
(* The cron capture (src/app/api/cron/options/route.ts, lines 10-85)        *)
(*                                                                          *)
(* args holds what the exchange answers: exchangeInfo and marks are << >>   *)
(* for a fetch that fails, <<list>> for one that succeeds.  A store write   *)
(* and the fetch of an index price succeed or fail, whichever the step      *)
(* chooses.                                                                 *)

BASE_URL == "https://eapi.binance.com"

\* The keys of byUnderlying in the order of the Map: that of the first
\* symbol of each underlying.
UnderlyingKeys(symbols) ==
    LET firsts == SelectSeq([k \in 1..Len(symbols) |-> k],
                            LAMBDA k : \A j \in 1..(k - 1) :
                                symbols[j].underlying # symbols[k].underlying)
    IN  [k \in 1..Len(firsts) |-> symbols[firsts[k]].underlying]

\* byUnderlying.get(underlying)
SymbolsOf(symbols, underlying) ==
    SelectSeq(symbols, LAMBDA s : s.underlying = underlying)

\* Array.from(new Set(list.map((s) => s.expiryDate))).sort((a, b) => a - b)
SortedExpiries(list) ==
    LET dates == {list[k].expiryDate : k \in 1..Len(list)}
    IN  [k \in 1..Cardinality(dates) |->
            CHOOSE t \in dates : Cardinality({s \in dates : s < t}) = k - 1]

\* markMap.get(symbol): << >> or <<entry>>, the last entry of the symbol.
MarkOf(markEntries, symbol) ==
    IF \E k \in 1..Len(markEntries) : markEntries[k].symbol = symbol
    THEN <<LastEntry(markEntries, symbol)>>
    ELSE << >>

\* The callback of list.map: m?.field ?? null
SnapshotEntry(s, markEntries) ==
    LET m == MarkOf(markEntries, s.symbol)
    IN  [symbol |-> s.symbol, underlying |-> s.underlying,
         expiryDate |-> s.expiryDate, strikePrice |-> s.strikePrice,
         side |-> s.side, unit |-> s.unit,
         markPrice |-> IF m = << >> THEN Null ELSE m[1].markPrice,
         bidIV |-> IF m = << >> THEN Null ELSE m[1].bidIV,
         askIV |-> IF m = << >> THEN Null ELSE m[1].askIV,
         markIV |-> IF m = << >> THEN Null ELSE m[1].markIV,
         delta |-> IF m = << >> THEN Null ELSE m[1].delta,
         theta |-> IF m = << >> THEN Null ELSE m[1].theta,
         gamma |-> IF m = << >> THEN Null ELSE m[1].gamma,
         vega |-> IF m = << >> THEN Null ELSE m[1].vega]

snapshotPayload(l, underlying, price) ==
    LET list == SymbolsOf(l.symbols, underlying)
    IN  [underlying |-> underlying, createdAt |-> l.now, indexPrice |-> price,
         expiries |-> SortedExpiries(list),
         symbols |-> [k \in 1..Len(list) |->
                         SnapshotEntry(list[k], l.markEntries)]]

\* The locals of GET after `const now = Date.now()`: position is the place
\* of the for loop in the keys of byUnderlying, errors what console.error
\* was given.
CaptureLocals(symbols, markEntries, time) ==
    [symbols |-> symbols, markEntries |-> markEntries,
     underlyings |-> UnderlyingKeys(symbols), position |-> 0, now |-> time,
     savedSnapshots |-> 0, savedAggregates |-> 0,
     payload |-> << >>, aggregate |-> << >>, errors |-> << >>]

\* The capture that counts no snapshot.
CountSnapshot_Never(l) == l

\* savedSnapshots++
CountSnapshot(l) == [l EXCEPT !.savedSnapshots = @ + 1]

CaptureUnchanged == <<contracts, indexPrice, openInterest, timeline,
                      anchorTimestamp, options, now, env, args,
                      openInterestCache>>

\* Promise.all([fetchExchangeInfo(), fetchAllMarkPrices()]): both requests
\* are sent; when either fails the catch answers 500 with its message.
FetchMarketData ==
    /\ pc = "idle"
    /\ requests' = requests \o
           <<[url |-> BASE_URL \o "/eapi/v1/exchangeInfo"],
             [url |-> BASE_URL \o "/eapi/v1/mark"]>>
    /\ IF args.exchangeInfo # << >> /\ args.marks # << >>
       THEN /\ locals' = CaptureLocals(args.exchangeInfo[1], args.marks[1], now)
            /\ pc' = "underlying"
            /\ UNCHANGED result
       ELSE /\ \E error \in
                   {"Binance exchangeInfo failed" : x \in {1} \ {Len(args.exchangeInfo)}}
                   \cup {"Binance mark price failed" : x \in {1} \ {Len(args.marks)}} :
                   result' = [status |-> 500, ok |-> FALSE, error |-> error]
            /\ pc' = "done"
            /\ UNCHANGED locals
    /\ UNCHANGED <<CaptureUnchanged, store>>

\* The next turn of the for loop up to saveOptionSnapshot: the index price,
\* 0 when fetchIndexPrice throws, and the payload.
BuildSnapshotPayload ==
    /\ pc = "underlying"
    /\ locals.position < Len(locals.underlyings)
    /\ LET underlying == locals.underlyings[locals.position + 1]
       IN  /\ requests' = Append(requests,
                                 [url |-> BASE_URL \o "/eapi/v1/index",
                                  underlying |-> underlying])
           /\ \E price \in {Num(0), Num(100)} :
                  locals' = [locals EXCEPT
                                !.position = @ + 1,
                                !.payload = <<snapshotPayload(locals, underlying,
                                                              price)>>,
                                !.aggregate = << >>]
    /\ pc' = "snapshotEntry"
    /\ UNCHANGED <<CaptureUnchanged, store, result>>

\* saveOptionSnapshot: await entryRef.set({...doc})
SetSnapshotEntry ==
    /\ pc = "snapshotEntry"
    /\ store' = [store EXCEPT
                    !.option_snapshots =
                        SetEntry(@, locals.payload[1].underlying,
                                 locals.payload[1].createdAt, locals.payload[1]),
                    !.writes = @ + 1]
    /\ pc' = "snapshotLatest"
    /\ UNCHANGED <<CaptureUnchanged, requests, locals, result>>

\* saveOptionSnapshot: await baseRef.set({latestCreatedAt}, {merge: true}),
\* then savedSnapshots++
SetSnapshotLatest ==
    /\ pc = "snapshotLatest"
    /\ store' = [store EXCEPT
                    !.option_snapshots =
                        SetLatestCreatedAt(@, locals.payload[1].underlying,
                                           locals.payload[1].createdAt),
                    !.writes = @ + 1]
    /\ locals' = CountSnapshot(locals)
    /\ pc' = "build"
    /\ UNCHANGED <<CaptureUnchanged, requests, result>>

\* A write of saveOptionSnapshot fails: the outer catch answers 500.
CatchCaptureError ==
    /\ pc \in {"snapshotEntry", "snapshotLatest"}
    /\ result' = [status |-> 500, ok |-> FALSE, error |-> "write failed"]
    /\ pc' = "done"
    /\ UNCHANGED <<CaptureUnchanged, requests, store, locals>>

\* buildSnapshotAggregate({...snapshotPayload, id: snapshotId})
BuildAggregate ==
    /\ pc = "build"
    /\ locals' = [locals EXCEPT
                     !.aggregate =
                         <<buildSnapshotAggregate(
                               [id |-> ToString(locals.payload[1].createdAt)]
                                   @@ locals.payload[1])>>]
    /\ pc' = "aggregateEntry"
    /\ UNCHANGED <<CaptureUnchanged, requests, store, result>>

\* saveSnapshotAggregate: await entryRef.set({...aggregate})
SaveAggregateEntry ==
    /\ pc = "aggregateEntry"
    /\ store' = [store EXCEPT
                    !.option_snapshot_aggregates =
                        SetEntry(@, locals.payload[1].underlying,
                                 locals.aggregate[1].createdAt,
                                 locals.aggregate[1]),
                    !.writes = @ + 1]
    /\ pc' = "aggregateLatest"
    /\ UNCHANGED <<CaptureUnchanged, requests, locals, result>>

\* saveSnapshotAggregate: await baseRef.set({latestCreatedAt}, {merge: true}),
\* then savedAggregates++
SaveAggregateLatest ==
    /\ pc = "aggregateLatest"
    /\ store' = [store EXCEPT
                    !.option_snapshot_aggregates =
                        SetLatestCreatedAt(@, locals.payload[1].underlying,
                                           locals.aggregate[1].createdAt),
                    !.writes = @ + 1]
    /\ locals' = [locals EXCEPT !.savedAggregates = @ + 1]
    /\ pc' = "underlying"
    /\ UNCHANGED <<CaptureUnchanged, requests, result>>

\* The build or a write of saveSnapshotAggregate throws: the inner catch
\* hands the error to console.error and the loop goes on.
CatchAggregateError ==
    /\ pc \in {"build", "aggregateEntry", "aggregateLatest"}
    /\ locals' = [locals EXCEPT
                     !.errors = Append(@, <<"Failed to build aggregate for",
                                            locals.payload[1].underlying,
                                            locals.now>>)]
    /\ pc' = "underlying"
    /\ UNCHANGED <<CaptureUnchanged, requests, store, result>>

\* The loop is over: the counters are returned.
RespondCapture ==
    /\ pc = "underlying"
    /\ locals.position = Len(locals.underlyings)
    /\ result' = [status |-> 200, ok |-> TRUE,
                  savedSnapshots |-> locals.savedSnapshots,
                  savedAggregates |-> locals.savedAggregates,
                  underlyings |-> Len(locals.underlyings)]
    /\ pc' = "done"
    /\ UNCHANGED <<CaptureUnchanged, requests, store, locals>>

NextCapture ==
    \/ FetchMarketData
    \/ BuildSnapshotPayload
    \/ SetSnapshotEntry
    \/ SetSnapshotLatest
    \/ CatchCaptureError
    \/ BuildAggregate
    \/ SaveAggregateEntry
    \/ SaveAggregateLatest
    \/ CatchAggregateError
    \/ RespondCapture

MaxCaptureSymbols == 3

\* What fetchExchangeInfo returns for a symbol, but for its name.
ExchangeSymbolData ==
    {[underlying |-> "BTCUSDT", expiryDate |-> 2, strikePrice |-> Num(100),
      side |-> "CALL", unit |-> Num(1)],
     [underlying |-> "BTCUSDT", expiryDate |-> 1, strikePrice |-> Num(90),
      side |-> "PUT", unit |-> Num(1)],
     [underlying |-> "ETHUSDT", expiryDate |-> 1, strikePrice |-> Num(100),
      side |-> "CALL", unit |-> Null]}

ExchangeSymbolLists ==
    UNION {{[i \in 1..n |-> [symbol |-> <<"S", i>>] @@ data[i]] :
               data \in [1..n -> ExchangeSymbolData]} :
           n \in 0..MaxCaptureSymbols}

MarkEntryLists ==
    {<< >>,
     <<[symbol |-> <<"S", 1>>, markPrice |-> Num(1), bidIV |-> Null,
        askIV |-> Null, markIV |-> Rat(3, 5), delta |-> Rat(3, 10),
        theta |-> Null, gamma |-> Rat(1, 100), vega |-> Null]>>}

\* The time of the capture and the stores before it: empty, or holding an
\* earlier capture.
CaptureTimes == {2}

CaptureStores ==
    {StoreOf("BTCUSDT" :> {} @@ "ETHUSDT" :> {},
             "BTCUSDT" :> {} @@ "ETHUSDT" :> {}),
     StoreOf("BTCUSDT" :> {1} @@ "ETHUSDT" :> {},
             "BTCUSDT" :> {1} @@ "ETHUSDT" :> {})}

InitCapture ==
    /\ pc = "idle"
    /\ args \in [exchangeInfo : {<< >>} \cup {<<list>> : list \in ExchangeSymbolLists},
                 marks : {<< >>} \cup {<<list>> : list \in MarkEntryLists}]
    /\ now \in CaptureTimes
    /\ store \in CaptureStores
    /\ env = Null
    /\ requests = << >>
    /\ openInterestCache = << >>
    /\ result = Null
    /\ locals = Null
    /\ contracts = << >>
    /\ indexPrice = Null
    /\ openInterest = << >>
    /\ timeline = << >>
    /\ anchorTimestamp = 0
    /\ options = Null

SpecCapture == InitCapture /\ [][NextCapture]_vars


----------------------------------------------------------------------------
(* Claims about the cron capture                                            *)

\* The capture is in its loop or has answered with the counters.
InCapture ==
    \/ pc \in {"underlying", "snapshotEntry", "snapshotLatest", "build",
               "aggregateEntry", "aggregateLatest"}
    \/ pc = "done" /\ result.status = 200

\* saveOptionSnapshot has completed for (underlying, createdAt).
SnapshotSaved(underlying, createdAt) ==
    LET document == DocumentAt(store.option_snapshots, underlying)
    IN  /\ createdAt \in DOMAIN document.entries
        /\ document.latestCreatedAt = <<createdAt>>

\* C27: in the cron capture an aggregate entry for (underlying, now) is in
\* the store only when the snapshot for (underlying, now) has been saved,
\* and is written by a step that follows that save; a failure while building
\* or saving an aggregate leaves the loop running, so that a capture which
\* answers with the counters has saved the snapshot of every underlying; and
\* the counters satisfy savedAggregates <= savedSnapshots <= underlyings.
C27_AggregateAfterSnapshot ==
    /\ [](\A id \in DOMAIN store.option_snapshot_aggregates :
              now \in DOMAIN store.option_snapshot_aggregates[id].entries
                  => SnapshotSaved(id, now))
    /\ [][store'.option_snapshot_aggregates # store.option_snapshot_aggregates
              => /\ InCapture
                 /\ SnapshotSaved(locals.payload[1].underlying, locals.now)
                 /\ locals.savedSnapshots = locals.position]_vars
    /\ [](InCapture =>
              /\ locals.savedAggregates <= locals.savedSnapshots
              /\ locals.savedSnapshots <= Len(locals.underlyings)
              /\ locals.savedAggregates + Len(locals.errors)
                     <= locals.savedSnapshots)
    /\ []((pc = "done" /\ result.status = 200) =>
              /\ result.savedAggregates <= result.savedSnapshots
              /\ result.savedSnapshots <= result.underlyings
              /\ result.savedSnapshots = result.underlyings
              /\ \A k \in 1..Len(locals.underlyings) :
                     SnapshotSaved(locals.underlyings[k], locals.now))

\* A capture of two underlyings has answered: the aggregate of the first
\* failed, and the second has its snapshot and its aggregate.
C27_Witness ==
    /\ pc = "done"
    /\ result.status = 200
    /\ result.underlyings = 2
    /\ result.savedSnapshots = 2
    /\ result.savedAggregates = 1
    /\ Len(locals.errors) = 1
    /\ locals.errors[1][2] = locals.underlyings[1]
    /\ now \in DOMAIN DocumentAt(store.option_snapshot_aggregates,
                                 locals.underlyings[2]).entries
    /\ SnapshotSaved(locals.underlyings[2], now)


----------------------------------------------------------------------------
(* fetchOpenInterest and its cache (src/unnamed/part_004, lines 149-197)    *)
(*                                                                          *)
(* openInterestCache is the Map: a function from cache keys to              *)
(* [timestamp, value], value the number of a promise.  locals.promises      *)
(* holds the state of every promise made, in the order of their making:     *)
(* "pending", "fulfilled" or "rejected"; requests holds the HTTP requests   *)
(* sent, the k-th that of promise k.  now is the clock (Date.now()).        *)

OPEN_INTEREST_TTL_MS == 15 * 60 * 1000

MaxCalls == 3
MaxTicks == 3

\* The clock advances by half the TTL.
ClockStep == OPEN_INTEREST_TTL_MS \div 2

\* `${underlyingAsset}:${expirationYyMmDd}`
CacheKey(underlyingAsset, expirationYyMmDd) ==
    underlyingAsset \o ":" \o expirationYyMmDd

\* cached && now - cached.timestamp < OPEN_INTEREST_TTL_MS
CacheHit(cache, cacheKey, time) ==
    /\ cacheKey \in DOMAIN cache
    /\ time - cache[cacheKey].timestamp < OPEN_INTEREST_TTL_MS

\* openInterestCache.set(cacheKey, {timestamp: now, value: promise})
CacheSet(cache, cacheKey, entry) ==
    [k \in DOMAIN cache \cup {cacheKey} |->
        IF k = cacheKey THEN entry ELSE cache[k]]

\* openInterestCache.delete(cacheKey)
CacheDelete(cache, cacheKey) ==
    [k \in DOMAIN cache \ {cacheKey} |-> cache[k]]

OpenInterestUnchanged == <<contracts, indexPrice, openInterest, timeline,
                           anchorTimestamp, options, args, env, store, pc>>

\* A call of fetchOpenInterest up to its return: the cached promise when the
\* entry is fresh, else a new promise, whose fetch is sent, and its entry.
CallFetchOpenInterest ==
    /\ locals.calls < MaxCalls
    /\ \E underlyingAsset \in {"BTC", "ETH"} :
           LET cacheKey == CacheKey(underlyingAsset, "260101")
               promise == Len(locals.promises) + 1
           IN  IF CacheHit(openInterestCache, cacheKey, now)
               THEN /\ result' = openInterestCache[cacheKey].value
                    /\ locals' = [locals EXCEPT !.calls = @ + 1]
                    /\ UNCHANGED <<requests, openInterestCache>>
               ELSE /\ requests' = Append(requests,
                                          [url |-> BASE_URL \o "/eapi/v1/openInterest",
                                           underlyingAsset |-> underlyingAsset,
                                           expiration |-> "260101",
                                           cacheKey |-> cacheKey,
                                           sentAt |-> now])
                    /\ openInterestCache' =
                           CacheSet(openInterestCache, cacheKey,
                                    [timestamp |-> now, value |-> promise])
                    /\ locals' = [locals EXCEPT
                                     !.calls = @ + 1,
                                     !.promises = Append(@, "pending")]
                    /\ result' = promise
    /\ UNCHANGED <<OpenInterestUnchanged, now>>

\* The fetch of a promise ends with a response, res.ok or not: the promise
\* is fulfilled with the entries, or with [].
FulfilFetch ==
    /\ \E promise \in 1..Len(locals.promises) :
           /\ locals.promises[promise] = "pending"
           /\ locals' = [locals EXCEPT !.promises[promise] = "fulfilled"]
    /\ UNCHANGED <<OpenInterestUnchanged, now, requests, openInterestCache,
                   result>>

\* The fetch or res.json() of a promise throws: the catch deletes the entry
\* of the promise's key and the promise is rejected.
RejectFetch ==
    /\ \E promise \in 1..Len(locals.promises) :
           /\ locals.promises[promise] = "pending"
           /\ locals' = [locals EXCEPT !.promises[promise] = "rejected"]
           /\ openInterestCache' =
                  CacheDelete(openInterestCache, requests[promise].cacheKey)
    /\ UNCHANGED <<OpenInterestUnchanged, now, requests, result>>

\* Time passes.
TickClock ==
    /\ now < MaxTicks * ClockStep
    /\ now' = now + ClockStep
    /\ UNCHANGED <<OpenInterestUnchanged, requests, openInterestCache, locals,
                   result>>

NextOpenInterest ==
    \/ CallFetchOpenInterest
    \/ FulfilFetch
    \/ RejectFetch
    \/ TickClock

InitOpenInterest ==
    /\ pc = "idle"
    /\ now = 0
    /\ openInterestCache = << >>
    /\ requests = << >>
    /\ locals = [calls |-> 0, promises |-> << >>]
    /\ result = Null
    /\ args = Null
    /\ env = Null
    /\ store = Null
    /\ contracts = << >>
    /\ indexPrice = Null
    /\ openInterest = << >>
    /\ timeline = << >>
    /\ anchorTimestamp = 0
    /\ options = Null

SpecOpenInterest == InitOpenInterest /\ [][NextOpenInterest]_vars

\* The last request sent for the key of the request about to be sent, 0 when
\* there is none.
LastRequestFor(cacheKey) ==
    LET sent == {k \in 1..Len(requests) : requests[k].cacheKey = cacheKey}
    IN  IF sent = {} THEN 0 ELSE CHOOSE k \in sent : \A j \in sent : j <= k

===========================================================================
